---- MODULE Spec2Model ----
(***************************************************************************)
(* Model of the decision-tracker task core: the TaskTracker state machine  *)
(* (task-tracker.ts), the SafeTaskTracker result boundary                  *)
(* (safe-task-tracker.ts) and the JSON snapshot store (store.ts).          *)
(*                                                                         *)
(* A JavaScript object is a function whose DOMAIN is the set of keys the   *)
(* object has: an optional field that was never assigned is a key that is  *)
(* absent from the DOMAIN (it reads as undefined).                         *)
(***************************************************************************)
EXTENDS Integers, Sequences, FiniteSets, TLC

VARIABLES tasks, nextId, result, file, writers, acked, llm, reflections, now

vars == <<tasks, nextId, result, file, writers, acked, llm, reflections, now>>

\* ------------------------------------------------------------------ bounds

\* Largest number of tasks a TaskTracker holds under Spec.
MaxTasks == 3
\* Largest parentId an addTask caller supplies under Spec.
MaxParent == 2
\* Largest number of tasks a SafeTaskTracker holds under SpecSafe and SpecPatch.
MaxSafeTasks == 2
\* Largest number of tasks in the snapshot file two writers start from.
MaxStoreTasks == 2

\* ------------------------------------------------------------- JS objects

Has(o, k) == k \in DOMAIN o

Put(o, k, v) == [x \in (DOMAIN o) \cup {k} |-> IF x = k THEN v ELSE o[x]]

\* Object spread / JSON field omission: the object restricted to keys ks.
Pick(o, ks) == [x \in (DOMAIN o) \cap ks |-> o[x]]

NoObj == [x \in {} |-> ""]

ClarityFields == {"outcome", "metric", "horizon"}

TaskFields == {"id", "title", "status", "outcome", "metric", "horizon", "parentId", "kind"}

\* -------------------------------------------------- TaskTracker (the model)

\* new TaskTracker(): an empty Map and nextId = 1.  The Map is the sequence
\* of its values in insertion order; the key of a value is its id field.
NewTracker == [tasks |-> <<>>, nextId |-> 1]

\* Map.get: the position of the entry keyed id, 0 when there is none.
MapIndex(ts, id) ==
  IF \E i \in 1..Len(ts) : ts[i].id = id
  THEN CHOOSE i \in 1..Len(ts) : ts[i].id = id
  ELSE 0

\* Map.set: an existing key keeps its position, a new key goes last.
MapSet(ts, task) ==
  IF MapIndex(ts, task.id) # 0
  THEN [ts EXCEPT ![MapIndex(ts, task.id)] = task]
  ELSE Append(ts, task)

\* opts?.parentId is truthy: present and not 0.
TruthyParent(opts) == Has(opts, "parentId") /\ opts.parentId # 0

\* The value an operation hands back: the tracker after it, the error it
\* threw ("none" when it returned) and the task copy it returned.
Outcome(ts, nid, thrown, value) ==
  [tasks |-> ts, nextId |-> nid, thrown |-> thrown, value |-> value]

\* Variant of addTask that forgets to advance the counter (this.nextId
\* in place of this.nextId++).
M_addTaskSameId(T, title, opts) ==
  LET kind == IF Has(opts, "kind") THEN opts.kind
              ELSE IF TruthyParent(opts) THEN "action" ELSE "goal"
      base == [id |-> T.nextId, title |-> title, status |-> "todo", kind |-> kind]
      task == IF TruthyParent(opts) THEN Put(base, "parentId", opts.parentId) ELSE base
  IN Outcome(MapSet(T.tasks, task), T.nextId, "none", task)

addTask(T, title, opts) ==
  LET kind == IF Has(opts, "kind") THEN opts.kind
              ELSE IF TruthyParent(opts) THEN "action" ELSE "goal"
      base == [id |-> T.nextId, title |-> title, status |-> "todo", kind |-> kind]
      task == IF TruthyParent(opts) THEN Put(base, "parentId", opts.parentId) ELSE base
  IN Outcome(MapSet(T.tasks, task), T.nextId + 1, "none", task)

\* Variant of MergePatch that replaces the clarity fields by the patch: a
\* field the patch lacks is cleared.
M_MergePatchReplace(task, patch) ==
  [x \in ((DOMAIN task) \ ClarityFields) \cup ((DOMAIN patch) \cap ClarityFields) |->
      IF x \in (DOMAIN patch) \cap ClarityFields THEN patch[x] ELSE task[x]]

\* The merge of a patch into a task: only the keys the patch has are written.
MergePatch(task, patch) ==
  [x \in (DOMAIN task) \cup ((DOMAIN patch) \cap ClarityFields) |->
      IF x \in (DOMAIN patch) \cap ClarityFields THEN patch[x] ELSE task[x]]

updateTask(T, id, patch) ==
  LET i == MapIndex(T.tasks, id)
  IN IF i = 0
     THEN Outcome(T.tasks, T.nextId, "NotFoundError", NoObj)
     ELSE LET task == MergePatch(T.tasks[i], patch)
          IN Outcome([T.tasks EXCEPT ![i] = task], T.nextId, "none", task)

\* Variant of transition without the source status check.
M_transitionUnchecked(T, id, fromStatus, toStatus) ==
  LET i == MapIndex(T.tasks, id)
  IN IF i = 0
     THEN Outcome(T.tasks, T.nextId, "NotFoundError", NoObj)
     ELSE LET task == [T.tasks[i] EXCEPT !.status = toStatus]
          IN Outcome([T.tasks EXCEPT ![i] = task], T.nextId, "none", task)

transition(T, id, fromStatus, toStatus) ==
  LET i == MapIndex(T.tasks, id)
  IN IF i = 0
     THEN Outcome(T.tasks, T.nextId, "NotFoundError", NoObj)
     ELSE IF T.tasks[i].status # fromStatus
     THEN Outcome(T.tasks, T.nextId, "InvalidTransitionError", NoObj)
     ELSE LET task == [T.tasks[i] EXCEPT !.status = toStatus]
          IN Outcome([T.tasks EXCEPT ![i] = task], T.nextId, "none", task)

\* Variant of StartCascade that leaves the parent alone.
M_StartCascadeNone(parentStatus) == parentStatus

\* The parent's status after a child was started: a todo parent is promoted.
StartCascade(parentStatus) ==
  IF parentStatus = "todo" THEN "in-progress" ELSE parentStatus

\* Variant of startTask whose cascade goes on to the parent's parent.
M_startTaskCascadesUp(T, id) ==
  LET r == transition(T, id, "todo", "in-progress")
  IN IF r.thrown # "none" THEN r
     ELSE IF ~Has(r.value, "parentId") THEN r
     ELSE LET p == MapIndex(r.tasks, r.value.parentId)
          IN IF p = 0 THEN r
             ELSE LET r1 == [r EXCEPT !.tasks[p].status = StartCascade(r.tasks[p].status)]
                      g == IF Has(r.tasks[p], "parentId")
                           THEN MapIndex(r.tasks, r.tasks[p].parentId) ELSE 0
                  IN IF g = 0 THEN r1
                     ELSE [r1 EXCEPT !.tasks[g].status = StartCascade(r1.tasks[g].status)]

startTask(T, id) ==
  LET r == transition(T, id, "todo", "in-progress")
  IN IF r.thrown # "none" THEN r
     ELSE IF ~Has(r.value, "parentId") THEN r
     ELSE LET p == MapIndex(r.tasks, r.value.parentId)
          IN IF p = 0 THEN r
             ELSE [r EXCEPT !.tasks[p].status = StartCascade(r.tasks[p].status)]

\* Variant of CompleteCascade without the in-progress guard: any parent whose
\* children are all done becomes done.
M_CompleteCascadeUnguarded(parentStatus, allDone) ==
  IF allDone THEN "done"
  ELSE IF parentStatus = "todo" THEN "in-progress" ELSE parentStatus

\* Variant of CompleteCascade that only ever promotes to in-progress.
M_CompleteCascadeNeverDone(parentStatus, allDone) ==
  IF parentStatus = "todo" THEN "in-progress" ELSE parentStatus

\* The parent's status after a child was completed.
CompleteCascade(parentStatus, allDone) ==
  IF allDone
  THEN IF parentStatus = "in-progress" THEN "done" ELSE parentStatus
  ELSE IF parentStatus = "todo" THEN "in-progress" ELSE parentStatus

\* listTasks().filter(t => t.parentId === pid): positions of the children.
Siblings(ts, pid) ==
  {i \in 1..Len(ts) : Has(ts[i], "parentId") /\ ts[i].parentId = pid}

completeTask(T, id) ==
  LET r == transition(T, id, "in-progress", "done")
  IN IF r.thrown # "none" THEN r
     ELSE IF ~Has(r.value, "parentId") THEN r
     ELSE LET p == MapIndex(r.tasks, r.value.parentId)
              sib == Siblings(r.tasks, r.value.parentId)
              allDone == sib # {} /\ \A i \in sib : r.tasks[i].status = "done"
          IN IF p = 0 THEN r
             ELSE [r EXCEPT !.tasks[p].status = CompleteCascade(r.tasks[p].status, allDone)]

\* listTasks(): a copy of every value, in Map order.
listTasks(T) == [i \in 1..Len(T.tasks) |-> T.tasks[i]]

\* ----------------------------------------- SafeTaskTracker (the boundary)

\* Variant of attempt that knows InvalidTransitionError only: a
\* NotFoundError is thrown again.
M_attemptNotFoundThrown(r) ==
  IF r.thrown = "none"
  THEN [threw |-> FALSE, ok |-> TRUE, code |-> "none", value |-> r.value]
  ELSE IF r.thrown = "InvalidTransitionError"
  THEN [threw |-> FALSE, ok |-> FALSE, code |-> "INVALID_TRANSITION", value |-> NoObj]
  ELSE [threw |-> TRUE, ok |-> FALSE, code |-> "none", value |-> NoObj]

\* attempt(fn): the Result for what fn did.  An error that is neither of the
\* two known classes is thrown again: the call has no Result (threw).
attempt(r) ==
  IF r.thrown = "none"
  THEN [threw |-> FALSE, ok |-> TRUE, code |-> "none", value |-> r.value]
  ELSE IF r.thrown = "NotFoundError"
  THEN [threw |-> FALSE, ok |-> FALSE, code |-> "NOT_FOUND", value |-> NoObj]
  ELSE IF r.thrown = "InvalidTransitionError"
  THEN [threw |-> FALSE, ok |-> FALSE, code |-> "INVALID_TRANSITION", value |-> NoObj]
  ELSE [threw |-> TRUE, ok |-> FALSE, code |-> "none", value |-> NoObj]

\* SafeTaskTracker.addTask(title) declares one parameter and passes only the
\* title on: whatever else the caller hands it is not forwarded.
safeAddTask(T, title, opts) == addTask(T, title, NoObj)

\* ------------------------------------------------- snapshot store (store.ts)

\* The tracker an operation's outcome leaves.
TrackerOf(r) == [tasks |-> r.tasks, nextId |-> r.nextId]

\* The snapshot file: missing, or holding a JSON array of task records.
MissingFile == [kind |-> "missing", data |-> <<>>]

ArrayFile(data) == [kind |-> "array", data |-> data]

\* JSON.stringify of one task: its own keys with their values.
jsonTask(task) == Pick(task, DOMAIN task)

\* saveTracker: the file content written, the JSON array of listTasks().
saveTracker(T) == ArrayFile([i \in 1..Len(T.tasks) |-> jsonTask(listTasks(T)[i])])

\* The patch loadTracker rebuilds from a record: its truthy clarity fields.
RestorePatch(task) ==
  [k \in {x \in ClarityFields : Has(task, x) /\ task[x] # ""} |-> task[k]]

\* Variant of ReplayTask that starts a task only when the record says
\* in-progress, so that a done record is never started.
M_ReplayTaskInProgressOnly(T, task) ==
  LET T1 == TrackerOf(safeAddTask(T, task.title, NoObj))
      T2 == IF task.status = "in-progress"
            THEN TrackerOf(startTask(T1, task.id)) ELSE T1
      T3 == IF task.status = "done"
            THEN TrackerOf(completeTask(T2, task.id)) ELSE T2
  IN IF DOMAIN RestorePatch(task) # {}
     THEN TrackerOf(updateTask(T3, task.id, RestorePatch(task)))
     ELSE T3

\* One turn of loadTracker's loop: add by title, replay the status through
\* startTask and completeTask, restore the clarity fields.  The calls go
\* through the boundary, so a failed one returns and changes nothing.
ReplayTask(T, task) ==
  LET T1 == TrackerOf(safeAddTask(T, task.title, NoObj))
      T2 == IF task.status \in {"in-progress", "done"}
            THEN TrackerOf(startTask(T1, task.id)) ELSE T1
      T3 == IF task.status = "done"
            THEN TrackerOf(completeTask(T2, task.id)) ELSE T2
  IN IF DOMAIN RestorePatch(task) # {}
     THEN TrackerOf(updateTask(T3, task.id, RestorePatch(task)))
     ELSE T3

\* What JSON.parse can hand the loop besides task records: null, and the
\* primitives (a number, a string, a character of a string).
JsonNull == [json |-> "null"]

JsonNumber == [json |-> "number"]

JsonString == [json |-> "string"]

IsRecord(e) == ~Has(e, "json")

\* The value of a property that is not there.
Undefined == "undefined"

\* One turn of the loop on any element.  A primitive has no title, status or
\* clarity field: the turn adds a task titled undefined and does no more.
\* (A null element has no turn: reading null.title throws.)
ReplayElement(T, e) ==
  IF IsRecord(e) THEN ReplayTask(T, e)
  ELSE TrackerOf(safeAddTask(T, Undefined, NoObj))

RECURSIVE Replay(_, _, _)
Replay(T, data, i) ==
  IF i > Len(data) THEN T ELSE Replay(ReplayElement(T, data[i]), data, i + 1)

\* The file kinds for which readFileSync or JSON.parse throws inside the try:
\* no file, a file that cannot be read, a text that is not JSON.
ParseFails(f) == f.kind \in {"missing", "unreadable", "malformed"}

\* The parsed value can be iterated by for ... of: an array or a string.
Iterable(f) == f.kind \in {"array", "string"}

\* loadTracker throws: the loop is outside the try, so a parsed value that
\* is not iterable (null, a number, a boolean, an object) and a null element
\* of an array end the call with a TypeError.
loadTrackerThrows(f) ==
  /\ ~ParseFails(f)
  /\ \/ ~Iterable(f)
     \/ \E i \in 1..Len(f.data) : f.data[i] = JsonNull

\* loadTracker: an empty tracker when the file cannot be read or parsed,
\* else the tracker the replay of the parsed value's elements builds.
loadTracker(f) ==
  IF ParseFails(f) THEN NewTracker ELSE Replay(NewTracker, f.data, 1)

\* ---------------------------------------------------------------- inputs

Titles == {"t"}

ParentInputs == 0..MaxParent

Kinds == {"goal", "action"}

\* The opts objects an addTask caller supplies: a parentId or none.
ParentOpts == {NoObj} \cup {[parentId |-> p] : p \in ParentInputs}

\* Every opts object of the HTTP create-task body: parentId and kind, each optional.
AllOpts ==
  ParentOpts
    \cup {[kind |-> k] : k \in Kinds}
    \cup {[parentId |-> p, kind |-> k] : p \in ParentInputs, k \in Kinds}

Ids == 0..MaxTasks

\* The ids an updateTask caller patches under Spec: an id that is never
\* stored and the first task's.
PatchedIds == {0, 1}

SafeIds == 0..MaxSafeTasks

\* The patch an updateTask caller supplies under Spec.
OutcomePatches == {[outcome |-> "v"]}

\* The patches under SpecSafe.
SafePatches == {NoObj, [outcome |-> ""], [metric |-> "v"]}

\* The patches under SpecPatch: any subset of the three fields; an outcome is
\* "" or "v", a metric or horizon is "v".
PatchValue(k) == IF k = "outcome" THEN {"", "v"} ELSE {"v"}

Patches ==
  UNION {[ks -> {"", "v"}] : ks \in SUBSET ClarityFields}
    \ {p \in UNION {[ks -> {"", "v"}] : ks \in SUBSET ClarityFields} :
          \E k \in DOMAIN p : p[k] \notin PatchValue(k)}

\* ----------------------------------------------------------------- state

Tracker == [tasks |-> tasks, nextId |-> nextId]

NoResult ==
  [op |-> "new", id |-> 0, patch |-> NoObj, threw |-> FALSE, ok |-> TRUE,
   code |-> "none", value |-> NoObj, list |-> <<>>]

\* No request to the language model is in flight.
NoCall == [pc |-> "idle"]

\* The reflections file does not exist yet; the clock reads day 0.
NoReflections == [kind |-> "missing", data |-> <<>>]

Init ==
  /\ tasks = <<>>
  /\ nextId = 1
  /\ result = NoResult
  /\ file = MissingFile
  /\ writers = <<>>
  /\ acked = <<>>
  /\ llm = NoCall
  /\ reflections = NoReflections
  /\ now = 0

\* What the caller of operation op(id, patch) sees: the Result that attempt
\* makes of the operation's outcome r.
Report(op, id, patch, r) ==
  LET a == attempt(r)
  IN result' = [op |-> op, id |-> id, patch |-> patch, threw |-> a.threw,
                ok |-> a.ok, code |-> a.code, value |-> a.value, list |-> <<>>]

Apply(r) ==
  /\ tasks' = r.tasks
  /\ nextId' = r.nextId

\* --------------------------------------- operations on a TaskTracker (Spec)

\* addTask is called on the TaskTracker itself, which takes the opts object.
\* updateTask, startTask and completeTask are called as the boundary calls
\* them, inside attempt, so that result holds the Result a caller is given.

AddTask(title, opts) ==
  /\ nextId <= MaxTasks
  /\ LET r == addTask(Tracker, title, opts)
     IN Apply(r) /\ Report("addTask", r.value.id, NoObj, r)
  /\ UNCHANGED <<file, writers, acked, llm, reflections, now>>

UpdateTask(id, patch) ==
  /\ LET r == updateTask(Tracker, id, patch)
     IN Apply(r) /\ Report("updateTask", id, patch, r)
  /\ UNCHANGED <<file, writers, acked, llm, reflections, now>>

StartTask(id) ==
  /\ LET r == startTask(Tracker, id)
     IN Apply(r) /\ Report("startTask", id, NoObj, r)
  /\ UNCHANGED <<file, writers, acked, llm, reflections, now>>

CompleteTask(id) ==
  /\ LET r == completeTask(Tracker, id)
     IN Apply(r) /\ Report("completeTask", id, NoObj, r)
  /\ UNCHANGED <<file, writers, acked, llm, reflections, now>>

Next ==
  \/ \E title \in Titles, opts \in ParentOpts : AddTask(title, opts)
  \/ \E id \in PatchedIds, patch \in OutcomePatches : UpdateTask(id, patch)
  \/ \E id \in Ids : StartTask(id)
  \/ \E id \in Ids : CompleteTask(id)

Spec == Init /\ [][Next]_vars

\* ------------------------------- operations on a SafeTaskTracker (SpecSafe)

SafeAddTask(title, opts) ==
  /\ nextId <= MaxSafeTasks
  /\ LET r == safeAddTask(Tracker, title, opts)
     IN Apply(r) /\ Report("addTask", r.value.id, NoObj, r)
  /\ UNCHANGED <<file, writers, acked, llm, reflections, now>>

SafeListTasks ==
  /\ result' = [NoResult EXCEPT !.op = "listTasks", !.list = listTasks(Tracker)]
  /\ UNCHANGED <<tasks, nextId, file, writers, acked, llm, reflections, now>>

NextSafe ==
  \/ \E title \in Titles, opts \in AllOpts : SafeAddTask(title, opts)
  \/ \E id \in SafeIds, patch \in SafePatches : UpdateTask(id, patch)
  \/ \E id \in SafeIds : StartTask(id)
  \/ \E id \in SafeIds : CompleteTask(id)
  \/ SafeListTasks

SpecSafe == Init /\ [][NextSafe]_vars

\* --------------------------------- patching a SafeTaskTracker (SpecPatch)

NextPatch ==
  \/ \E title \in Titles : SafeAddTask(title, NoObj)
  \/ \E id \in SafeIds, patch \in Patches : UpdateTask(id, patch)

SpecPatch == Init /\ [][NextPatch]_vars

\* ------------------------------------------------- status life cycle

\* The step a successful operation op on id makes, seen from both ends.
Did(op, id) == result'.op = op /\ result'.id = id /\ result'.ok

\* The step a failed operation op on id makes.
Failed(op, id) == result'.op = op /\ result'.id = id /\ ~result'.ok

Exists(ts, id) == MapIndex(ts, id) # 0

TaskOf(ts, id) == ts[MapIndex(ts, id)]

StatusOf(ts, id) == TaskOf(ts, id).status

\* The ids of the tasks of ts.
IdsOf(ts) == {ts[i].id : i \in 1..Len(ts)}

\* Task id of ts has a parentId that is the id of a task of ts.
HasParent(ts, id) ==
  /\ Exists(ts, id)
  /\ Has(TaskOf(ts, id), "parentId")
  /\ Exists(ts, TaskOf(ts, id).parentId)

ParentOf(ts, id) == TaskOf(ts, id).parentId

LegalStep(a, b) ==
  \/ a = b
  \/ a = "todo" /\ b = "in-progress"
  \/ a = "in-progress" /\ b = "done"

\* C1: in every step of a TaskTracker (an add, update, start or complete,
\* with the parent update it cascades), every task stays in the store and its
\* status either stays or moves todo -> in-progress or in-progress -> done.
C1_StatusStepsLinear ==
  [][\A id \in IdsOf(tasks) :
        /\ Exists(tasks', id)
        /\ LegalStep(StatusOf(tasks, id), StatusOf(tasks', id))]_vars

\* A completion has just cascaded: the completed child's parent, another
\* task, is done.
C1_Witness ==
  /\ result.op = "completeTask" /\ result.ok
  /\ HasParent(tasks, result.id)
  /\ ParentOf(tasks, result.id) # result.id
  /\ StatusOf(tasks, ParentOf(tasks, result.id)) = "done"

\* C2: startTask on a stored task that is not todo, and completeTask on a
\* stored task that is not in-progress, fail with INVALID_TRANSITION and
\* leave every task and the next-id counter as they were.
C2_WrongSourceFailsUnchanged ==
  [][\A id \in IdsOf(tasks) :
        /\ (result'.op = "startTask" /\ result'.id = id /\ StatusOf(tasks, id) # "todo")
             => (Failed("startTask", id) /\ ~result'.threw
                   /\ result'.code = "INVALID_TRANSITION"
                   /\ tasks' = tasks /\ nextId' = nextId)
        /\ (result'.op = "completeTask" /\ result'.id = id
              /\ StatusOf(tasks, id) # "in-progress")
             => (Failed("completeTask", id) /\ ~result'.threw
                   /\ result'.code = "INVALID_TRANSITION"
                   /\ tasks' = tasks /\ nextId' = nextId)]_vars

\* A completeTask on a todo child of a stored parent has just failed.
C2_Witness ==
  /\ result.op = "completeTask" /\ result.code = "INVALID_TRANSITION"
  /\ HasParent(tasks, result.id)
  /\ ParentOf(tasks, result.id) # result.id
  /\ StatusOf(tasks, result.id) = "todo"

\* The children of pid other than id that are not done.
OpenSiblings(ts, pid, id) ==
  {i \in Siblings(ts, pid) : ts[i].id # id /\ ts[i].status # "done"}

\* A successful completeTask(id) of a child of a stored parent, the parent
\* being another task (addTask takes any parentId, the task's own id too).
CompletedChild(id) ==
  Did("completeTask", id) /\ HasParent(tasks, id) /\ ParentOf(tasks, id) # id

\* C3 as claimed, for a parent that is another task: completing the last
\* non-done child makes the parent done whatever its status was; completing
\* a child with an open sibling makes a todo parent in-progress and makes no
\* parent done.
C3_LastChildAlwaysCompletesParent ==
  [][\A id \in IdsOf(tasks) :
        CompletedChild(id) =>
          LET pid == ParentOf(tasks, id)
          IN IF OpenSiblings(tasks, pid, id) = {}
             THEN StatusOf(tasks', pid) = "done"
             ELSE /\ StatusOf(tasks, pid) = "todo" => StatusOf(tasks', pid) = "in-progress"
                  /\ StatusOf(tasks, pid) # "done" => StatusOf(tasks', pid) # "done"]_vars

\* C3 amended, for a parent that is another task: completing the last
\* non-done child makes an in-progress parent done, leaves a done parent done
\* and leaves a todo parent todo; completing a child with an open sibling
\* makes a todo parent in-progress and makes no parent done.
C3_LastChildCompletesStartedParent ==
  [][\A id \in IdsOf(tasks) :
        CompletedChild(id) =>
          LET pid == ParentOf(tasks, id)
          IN IF OpenSiblings(tasks, pid, id) = {}
             THEN /\ StatusOf(tasks, pid) = "todo" => StatusOf(tasks', pid) = "todo"
                  /\ StatusOf(tasks, pid) # "todo" => StatusOf(tasks', pid) = "done"
             ELSE /\ StatusOf(tasks, pid) = "todo" => StatusOf(tasks', pid) = "in-progress"
                  /\ StatusOf(tasks, pid) # "done" => StatusOf(tasks', pid) # "done"]_vars

\* The last open child of a parent with two children has just been completed
\* and the parent is done.
C3_Witness ==
  /\ result.op = "completeTask" /\ result.ok
  /\ HasParent(tasks, result.id)
  /\ ParentOf(tasks, result.id) # result.id
  /\ Cardinality(Siblings(tasks, ParentOf(tasks, result.id))) >= 2
  /\ StatusOf(tasks, ParentOf(tasks, result.id)) = "done"

\* C4: a successful startTask of a task whose parentId names a stored task
\* that is todo leaves that parent in-progress.
C4_StartPromotesTodoParent ==
  [][\A id \in IdsOf(tasks) :
        (Did("startTask", id) /\ HasParent(tasks, id)
           /\ StatusOf(tasks, ParentOf(tasks, id)) = "todo")
          => StatusOf(tasks', ParentOf(tasks, id)) = "in-progress"]_vars

\* A child has just been started, its parent (another task) is in-progress
\* and no other child of that parent has left todo: the start promoted it.
C4_Witness ==
  /\ result.op = "startTask" /\ result.ok
  /\ HasParent(tasks, result.id)
  /\ ParentOf(tasks, result.id) # result.id
  /\ StatusOf(tasks, ParentOf(tasks, result.id)) = "in-progress"
  /\ \A i \in Siblings(tasks, ParentOf(tasks, result.id)) :
        tasks[i].id # result.id => tasks[i].status = "todo"

\* ------------------------------------------------------ snapshot round trip

\* The (id, title, status, outcome, metric, horizon, parentId, kind) tuple of
\* every task of ts; a field the task lacks is lacking in the tuple.
Tuples(ts) == [i \in 1..Len(ts) |-> Pick(ts[i], TaskFields)]

\* Every parentId of ts is the id of an earlier task of ts.
ParentsEarlier(ts) ==
  \A i \in 1..Len(ts) :
    Has(ts[i], "parentId") => (ts[i].parentId \in IdsOf(ts) /\ ts[i].parentId < ts[i].id)

\* C5, for a tracker whose actions name earlier tasks as parents: the
\* tracker that loadTracker rebuilds from what saveTracker writes holds, task
\* for task, the tuples of the tracker that was saved.
C5_RoundTripIdentical ==
  ParentsEarlier(tasks) =>
    Tuples(loadTracker(saveTracker(Tracker)).tasks) = Tuples(tasks)

\* --------------------------------------------------------------- addTask

\* What C6 says addTask(title, opts) returns.
AddReturns(value, opts) ==
  /\ value.status = "todo"
  /\ IF Has(opts, "parentId")
     THEN Has(value, "parentId") /\ value.parentId = opts.parentId
     ELSE ~Has(value, "parentId")
  /\ value.kind = IF Has(opts, "kind") THEN opts.kind
                  ELSE IF Has(opts, "parentId") THEN "action" ELSE "goal"

\* C6: addTask through the boundary, as the create-task handler calls it,
\* succeeds and returns a todo task with the parentId it was given and kind
\* action, or no parentId and kind goal; a kind it was given wins.
C6_AddCarriesParentAndKind ==
  [][result'.op = "addTask" =>
        \A title \in Titles, opts \in AllOpts :
          SafeAddTask(title, opts) => (result'.ok /\ AddReturns(result'.value, opts))]_vars

\* ------------------------------------------------------------ ids and order

\* C7: an addTask returns the id one above the number of tasks added before
\* it and stores one more task; after every step listTasks holds the ids
\* 1..n in ascending order, each once, and the next id is n + 1.
C7_IdsSequential ==
  [][/\ (result'.op = "addTask" /\ tasks' # tasks) =>
          /\ result'.value.id = Len(tasks) + 1
          /\ result'.value.id \notin IdsOf(tasks)
          /\ Len(tasks') = Len(tasks) + 1
     /\ \A i \in 1..Len(listTasks(Tracker)) : listTasks(Tracker)[i].id = i
     /\ \A i \in 1..Len(tasks') : listTasks([tasks |-> tasks', nextId |-> nextId'])[i].id = i
     /\ nextId' = Len(tasks') + 1]_vars

\* The third addTask has just returned id 3, after starts and completions.
C7_Witness ==
  /\ result.op = "addTask" /\ result.value.id = 3
  /\ Len(tasks) = 3
  /\ tasks[1].status = "done" /\ tasks[2].status = "in-progress"

\* ------------------------------------------------------------- updateTask

\* C8: a successful updateTask(id, patch) writes the clarity fields the patch
\* has and leaves every other field of the task, every other task and the
\* next-id counter as they were.
C8_UpdateIsMergePatch ==
  [][(result'.op = "updateTask" /\ result'.ok) =>
          LET i == MapIndex(tasks, result'.id)
              patch == result'.patch
          IN /\ Len(tasks') = Len(tasks) /\ nextId' = nextId
             /\ \A j \in 1..Len(tasks) : j # i => tasks'[j] = tasks[j]
             /\ DOMAIN tasks'[i] \subseteq TaskFields
             /\ \A k \in TaskFields :
                   IF k \in DOMAIN patch
                   THEN Has(tasks'[i], k) /\ tasks'[i][k] = patch[k]
                   ELSE /\ Has(tasks'[i], k) <=> Has(tasks[i], k)
                        /\ Has(tasks[i], k) => tasks'[i][k] = tasks[i][k]]_vars

\* An updateTask has just overwritten the outcome of a task that keeps a
\* metric the patch did not name, next to another task that has a horizon.
C8_Witness ==
  /\ result.op = "updateTask" /\ result.ok
  /\ Len(tasks) = 2
  /\ result.patch = [outcome |-> ""]
  /\ Has(result.value, "outcome") /\ result.value.outcome = ""
  /\ Has(result.value, "metric") /\ ~Has(result.value, "horizon")
  /\ \E j \in 1..2 : tasks[j].id # result.id /\ Has(tasks[j], "horizon")

\* ------------------------------------------------------- boundary results

\* C9: every SafeTaskTracker call returns a Result: addTask and listTasks
\* return ok; updateTask, startTask and completeTask on an id that is not
\* stored return NOT_FOUND and change nothing, on a stored task in the wrong
\* status INVALID_TRANSITION; a failure has one of these two codes.
C9_BoundaryNeverThrows ==
  [][/\ ~result'.threw
     /\ result'.ok <=> result'.code = "none"
     /\ result'.code \in {"none", "NOT_FOUND", "INVALID_TRANSITION"}
     /\ result'.op \in {"addTask", "listTasks"} => result'.ok
     /\ result'.op \in {"updateTask", "startTask", "completeTask"} =>
          IF ~Exists(tasks, result'.id)
          THEN result'.code = "NOT_FOUND" /\ tasks' = tasks /\ nextId' = nextId
          ELSE /\ result'.code # "NOT_FOUND"
               /\ (result'.op = "startTask" /\ StatusOf(tasks, result'.id) # "todo")
                    => result'.code = "INVALID_TRANSITION"
               /\ (result'.op = "completeTask"
                     /\ StatusOf(tasks, result'.id) # "in-progress")
                    => result'.code = "INVALID_TRANSITION"]_vars

\* An updateTask on an id that is not stored has just returned NOT_FOUND
\* from a tracker that holds tasks.
C9_Witness ==
  /\ result.op = "updateTask" /\ result.code = "NOT_FOUND" /\ ~result.ok
  /\ Len(tasks) >= 1
  /\ ~Exists(tasks, result.id)

\* ------------------------------------- two writers of one file (SpecStore)

\* The command line process and the HTTP server process.  Each loads the
\* snapshot, applies one mutation through the boundary and, if that
\* succeeded, writes the full snapshot back and reports success.
Writers == {"cli", "api"}

Statuses == {"todo", "in-progress", "done"}

\* A record as saveTracker writes it for a task added through the boundary.
StoredTask(i, st) == [id |-> i, title |-> "t", status |-> st, kind |-> "goal"]

\* The files the writers start from: none, or a snapshot of up to
\* MaxStoreTasks tasks in any statuses.
SeedFiles ==
  {MissingFile} \cup
  UNION {{ArrayFile([i \in 1..n |-> StoredTask(i, f[i])]) : f \in [1..n -> Statuses]} :
           n \in 0..MaxStoreTasks}

StoreIds == 1..MaxStoreTasks

IdleWriter ==
  [pc |-> "idle", tasks |-> <<>>, nextId |-> 1, base |-> MissingFile,
   op |-> "none", id |-> 0]

InitStore ==
  /\ tasks = <<>>
  /\ nextId = 1
  /\ result = NoResult
  /\ file \in SeedFiles
  /\ writers = [w \in Writers |-> IdleWriter]
  /\ acked = <<>>
  /\ llm = NoCall
  /\ reflections = NoReflections
  /\ now = 0

\* const tracker = loadTracker()
Load(w) ==
  /\ writers[w].pc = "idle"
  /\ LET T == loadTracker(file)
     IN writers' = [writers EXCEPT ![w] =
          [@ EXCEPT !.pc = "loaded", !.tasks = T.tasks, !.nextId = T.nextId,
                    !.base = file]]
  /\ UNCHANGED <<tasks, nextId, result, file, acked, llm, reflections, now>>

\* The writer's tracker.
WriterTracker(w) == [tasks |-> writers[w].tasks, nextId |-> writers[w].nextId]

\* The outcome of the writer's mutation: an add titled by the writer, or a
\* start or completion of task id.
Mutation(w, op, id) ==
  IF op = "addTask" THEN safeAddTask(WriterTracker(w), w, NoObj)
  ELSE IF op = "startTask" THEN startTask(WriterTracker(w), id)
  ELSE completeTask(WriterTracker(w), id)

\* const result = tracker.<op>(...): a failed Result ends the request
\* without a save.
Mutate(w, op, id) ==
  /\ writers[w].pc = "loaded"
  /\ LET r == Mutation(w, op, id)
     IN writers' = [writers EXCEPT ![w] =
          [@ EXCEPT !.pc = IF attempt(r).ok THEN "mutated" ELSE "failed",
                    !.tasks = r.tasks, !.nextId = r.nextId,
                    !.op = op, !.id = IF op = "addTask" THEN r.value.id ELSE id]]
  /\ UNCHANGED <<tasks, nextId, result, file, acked, llm, reflections, now>>

\* if (result.ok) saveTracker(tracker), then the success is reported.  The
\* report notes whether the file had changed since this writer read it.
Save(w) ==
  /\ writers[w].pc = "mutated"
  /\ file' = saveTracker(WriterTracker(w))
  /\ writers' = [writers EXCEPT ![w].pc = "saved"]
  /\ acked' = Append(acked, [w |-> w, op |-> writers[w].op, id |-> writers[w].id,
                             stale |-> writers[w].base # file])
  /\ UNCHANGED <<tasks, nextId, result, llm, reflections, now>>

NextStore ==
  \/ \E w \in Writers : Load(w)
  \/ \E w \in Writers : Mutate(w, "addTask", 0)
  \/ \E w \in Writers, op \in {"startTask", "completeTask"}, id \in StoreIds :
        Mutate(w, op, id)
  \/ \E w \in Writers : Save(w)

SpecStore == InitStore /\ [][NextStore]_vars

\* The file shows the effect of the reported mutation e.
EffectInFile(e, f) ==
  /\ f.kind = "array"
  /\ \E i \in 1..Len(f.data) :
        IF e.op = "addTask" THEN f.data[i].title = e.w
        ELSE /\ f.data[i].id = e.id
             /\ f.data[i].status \in
                  (IF e.op = "startTask" THEN {"in-progress", "done"} ELSE {"done"})

\* C10: the last writer wins: the file always shows the mutation reported
\* last, and it shows every reported mutation as long as no writer saved a
\* snapshot it had read before another writer's save.
C10_LastWriterWins ==
  /\ Len(acked) > 0 => EffectInFile(acked[Len(acked)], file)
  /\ (\A i \in 1..Len(acked) : ~acked[i].stale)
       => \A i \in 1..Len(acked) : EffectInFile(acked[i], file)

\* Both writers reported success and the file lacks the mutation of one.
C10_LostUpdate ==
  /\ \A w \in Writers : writers[w].pc = "saved"
  /\ \E i \in 1..Len(acked) : ~EffectInFile(acked[i], file)

\* ------------------------------------- loading any file content (SpecLoad)

\* Longest parsed array or string in the file under SpecLoad.
MaxLoadLen == 2

\* A file that readFileSync or JSON.parse rejects, or the JSON value parsed.
OtherFile(kind) == [kind |-> kind, data |-> <<>>]

\* The elements of a parsed array: task records as saveTracker writes them
\* (one with an outcome), null, a number.
LoadElements(i) ==
  {StoredTask(i, st) : st \in Statuses}
    \cup {Put(StoredTask(i, "todo"), "outcome", "v"), JsonNull, JsonNumber}

LoadFiles ==
  {OtherFile(k) : k \in {"missing", "unreadable", "malformed", "null", "number", "object"}}
    \cup {[kind |-> "string", data |-> [i \in 1..n |-> JsonString]] : n \in 0..MaxLoadLen}
    \cup UNION {{ArrayFile(d) : d \in {d \in [1..n -> UNION {LoadElements(i) : i \in 1..n}] :
                                        \A i \in 1..n : d[i] \in LoadElements(i)}} :
                 n \in 0..MaxLoadLen}

\* Something outside the program leaves content f at STORE_PATH.
PutFile(f) ==
  /\ file' = f
  /\ result' = [NoResult EXCEPT !.op = "putFile"]
  /\ UNCHANGED <<tasks, nextId, writers, acked, llm, reflections, now>>

\* const tracker = loadTracker(): the caller holds the tracker returned, or
\* none when the call threw.
LoadTracker ==
  /\ result' = [NoResult EXCEPT !.op = "loadTracker", !.threw = loadTrackerThrows(file),
                                !.ok = ~loadTrackerThrows(file)]
  /\ IF loadTrackerThrows(file)
     THEN Apply(NewTracker)
     ELSE Apply(loadTracker(file))
  /\ UNCHANGED <<file, writers, acked, llm, reflections, now>>

NextLoad ==
  \/ \E f \in LoadFiles : PutFile(f)
  \/ LoadTracker

SpecLoad == Init /\ [][NextLoad]_vars

\* The file holds a JSON array of task records.
WellFormed(f) == f.kind = "array" /\ \A i \in 1..Len(f.data) : IsRecord(f.data[i])

\* C11: loadTracker never throws, and returns an empty tracker whenever the
\* file is missing, unreadable or anything but a JSON array of task records.
C11_LoadNeverThrows ==
  result.op = "loadTracker" =>
    /\ ~result.threw
    /\ ~WellFormed(file) => tasks = <<>>

\* ---------------------------- suggestion engine (decision-suggestions.ts)

\* A title: whether it starts with whitespace, and its words in order.
Text(lead, words) == [lead |-> lead, words |-> words]

NoText == Text(FALSE, <<>>)

Range(s) == {s[i] : i \in 1..Len(s)}

\* String.toLowerCase, on the words the model's titles are made of.
ToLower(w) ==
  CASE w = "Action:" -> "action:"
    [] w = "Tax" -> "tax"
    [] OTHER -> w

LowerWords(ws) == [i \in 1..Len(ws) |-> ToLower(ws[i])]

\* normalize: lower case, a leading "action:" removed (the pattern is
\* anchored at the first character, before the trim), whitespace collapsed
\* and trimmed.  The value is the sequence of words left.
normalize(t) ==
  LET low == LowerWords(t.words)
  IN IF ~t.lead /\ Len(low) > 0 /\ low[1] = "action:" THEN Tail(low) ELSE low

\* tokens: the set of normalized words longer than 2 characters.
tokens(t) == {w \in Range(normalize(t)) : Len(w) > 2}

\* A score: the fraction num / den.
Ratio(num, den) == [num |-> num, den |-> den]

Greater(x, y) == x.num * y.den > y.num * x.den

AtLeast(x, y) == x.num * y.den >= y.num * x.den

jaccard(a, b) ==
  IF a = {} /\ b = {} THEN Ratio(0, 1)
  ELSE Ratio(Cardinality(a \cap b),
             Cardinality(a) + Cardinality(b) - Cardinality(a \cap b))

\* /^action:/i on the trimmed title.
isActionPrefixed(t) == Len(t.words) > 0 /\ ToLower(t.words[1]) = "action:"

\* A field of the decision is truthy: present and not the empty string.
Truthy(d, k) == Has(d, k) /\ d[k] # ""

isCompleteOf(d) == Truthy(d, "outcome") /\ Truthy(d, "metric") /\ Truthy(d, "horizon")

TYPE_KEYWORDS ==
  <<[type |-> "habit",
    words |-> {"habit", "smoke", "smoking", "run", "running", "fitness", "exercise", "meditat", "sleep", "diet", "drink", "sober", "gym", "walk", "yoga"}],
     [type |-> "study",
    words |-> {"exam", "university", "learn", "course", "study", "studying", "certif", "degree", "class", "lecture", "tutor", "homework", "grade"}],
     [type |-> "product",
    words |-> {"onboarding", "feature", "ux", "ui", "requirements", "sprint", "release", "deploy", "ship", "mvp", "prototype", "a/b", "activation", "retention"}],
     [type |-> "vendor",
    words |-> {"vendor", "provider", "tool", "contract", "saas", "integration", "migrate", "analytics vendor", "procurement", "rfp"}],
     [type |-> "strategy",
    words |-> {"pricing", "strategy", "roadmap", "positioning", "revenue", "market", "competitive", "growth", "okr", "quarterly", "q1", "q2", "q3", "q4"}] >>

AMBIGUOUS_VERBS ==
  {"improve", "optimize", "prepare", "fix", "enhance", "streamline", "revamp", "boost", "refine", "address"}

\* The words of `${d.title} ${d.outcome ?? ""} ${d.metric ?? ""}`, in lower
\* case (the patterns are case-insensitive); an outcome or metric is one word.
ClassifiedWords(d) ==
  {ToLower(w) : w \in Range(d.title.words)
                        \cup {d[k] : k \in {"outcome", "metric"} \cap DOMAIN d}}

\* classifyDecision: the first type, in the order of TYPE_KEYWORDS, one of
\* whose keywords is a word of the text.
classifyDecision(d) ==
  LET hits == {i \in 1..Len(TYPE_KEYWORDS) :
                 ClassifiedWords(d) \cap TYPE_KEYWORDS[i].words # {}}
  IN IF hits = {} THEN "general"
     ELSE TYPE_KEYWORDS[CHOOSE i \in hits : \A j \in hits : i <= j].type

hasAmbiguousVerb(t) == \E i \in 1..Len(t.words) : ToLower(t.words[i]) \in AMBIGUOUS_VERBS

\* title.match(AMBIGUOUS_VERBS)[0].toLowerCase(): the leftmost such word.
FirstAmbiguousVerb(t) ==
  LET hits == {i \in 1..Len(t.words) : ToLower(t.words[i]) \in AMBIGUOUS_VERBS}
  IN ToLower(t.words[CHOOSE i \in hits : \A j \in hits : i <= j])

HabitTemplates ==
  << [text |-> "Pick a 30-day window for \"${n}\"", interp |-> TRUE, kind |-> "next-action", proposes |-> {"outcome", "horizon"}, when |-> "missing", fills |-> "outcome"],
     [text |-> "Track one number daily for \"${n}\"", interp |-> TRUE, kind |-> "next-action", proposes |-> {"metric"}, when |-> "missing", fills |-> "metric"],
     [text |-> "Name the trigger and the replacement routine", interp |-> FALSE, kind |-> "next-action", proposes |-> {}, when |-> "missing", fills |-> "outcome"],
     [text |-> "Block 15 min each Sunday to review \"${n}\"", interp |-> TRUE, kind |-> "review", proposes |-> {"horizon"}, when |-> "any"],
     [text |-> "Set up one accountability mechanism", interp |-> FALSE, kind |-> "next-action", proposes |-> {}, when |-> "complete"],
     [text |-> "Decide: is this permanent or time-boxed?", interp |-> FALSE, kind |-> "next-action", proposes |-> {"outcome"}, when |-> "missing", fills |-> "outcome"] >>

StudyTemplates ==
  << [text |-> "Set a target score or grade", interp |-> FALSE, kind |-> "next-action", proposes |-> {"outcome"}, when |-> "missing", fills |-> "outcome"],
     [text |-> "Estimate hours needed and block them on your calendar", interp |-> FALSE, kind |-> "next-action", proposes |-> {"metric", "horizon"}, when |-> "missing", fills |-> "metric"],
     [text |-> "Build a practice test from your weakest areas", interp |-> FALSE, kind |-> "next-action", proposes |-> {}, when |-> "any"],
     [text |-> "Identify the 3 highest-weight topics", interp |-> FALSE, kind |-> "split", proposes |-> {}, when |-> "missing", fills |-> "outcome"],
     [text |-> "Schedule a mock exam one week before the deadline", interp |-> FALSE, kind |-> "review", proposes |-> {}, when |-> "complete"] >>

ProductTemplates ==
  << [text |-> "Define the activation event", interp |-> FALSE, kind |-> "next-action", proposes |-> {"outcome", "metric"}, when |-> "missing", fills |-> "outcome"],
     [text |-> "Write a one-line success criterion", interp |-> FALSE, kind |-> "next-action", proposes |-> {"outcome"}, when |-> "missing", fills |-> "outcome"],
     [text |-> "Find the riskiest assumption and design a quick test", interp |-> FALSE, kind |-> "next-action", proposes |-> {}, when |-> "any"],
     [text |-> "Set a ship date and cut scope to fit", interp |-> FALSE, kind |-> "next-action", proposes |-> {"horizon"}, when |-> "missing", fills |-> "horizon"],
     [text |-> "Draft a 3-bullet release note now", interp |-> FALSE, kind |-> "next-action", proposes |-> {}, when |-> "complete"],
     [text |-> "Run a 30-min alignment check with stakeholders", interp |-> FALSE, kind |-> "review", proposes |-> {}, when |-> "complete"] >>

VendorTemplates ==
  << [text |-> "Write down 3 must-have criteria before looking at vendors", interp |-> FALSE, kind |-> "next-action", proposes |-> {"outcome"}, when |-> "missing", fills |-> "outcome"],
     [text |-> "Set a hard decision deadline", interp |-> FALSE, kind |-> "next-action", proposes |-> {"horizon"}, when |-> "missing", fills |-> "horizon"],
     [text |-> "Request a trial from your top 2 candidates", interp |-> FALSE, kind |-> "next-action", proposes |-> {"metric"}, when |-> "missing", fills |-> "metric"],
     [text |-> "Calculate total cost of ownership, not just license", interp |-> FALSE, kind |-> "next-action", proposes |-> {"metric"}, when |-> "any"],
     [text |-> "Write a 1-page decision memo", interp |-> FALSE, kind |-> "review", proposes |-> {}, when |-> "complete"] >>

StrategyTemplates ==
  << [text |-> "Pick the single metric this strategy should move", interp |-> FALSE, kind |-> "next-action", proposes |-> {"metric"}, when |-> "missing", fills |-> "metric"],
     [text |-> "List the top 3 risks", interp |-> FALSE, kind |-> "next-action", proposes |-> {"outcome"}, when |-> "missing", fills |-> "outcome"],
     [text |-> "Set a 90-day checkpoint", interp |-> FALSE, kind |-> "next-action", proposes |-> {"horizon"}, when |-> "missing", fills |-> "horizon"],
     [text |-> "Write a one-page strategy brief", interp |-> FALSE, kind |-> "next-action", proposes |-> {}, when |-> "any"],
     [text |-> "Run a pre-mortem: assume it failed - why?", interp |-> FALSE, kind |-> "review", proposes |-> {}, when |-> "complete"],
     [text |-> "Align with one key stakeholder this week", interp |-> FALSE, kind |-> "next-action", proposes |-> {}, when |-> "any"] >>

GeneralTemplates ==
  << [text |-> "Finish this sentence: \"This is successful when...\"", interp |-> FALSE, kind |-> "next-action", proposes |-> {"outcome"}, when |-> "missing", fills |-> "outcome"],
     [text |-> "Pick one number to track progress", interp |-> FALSE, kind |-> "next-action", proposes |-> {"metric"}, when |-> "missing", fills |-> "metric"],
     [text |-> "Give yourself a 2-week deadline", interp |-> FALSE, kind |-> "next-action", proposes |-> {"horizon"}, when |-> "missing", fills |-> "horizon"],
     [text |-> "Identify the first concrete step (under 30 min)", interp |-> FALSE, kind |-> "next-action", proposes |-> {}, when |-> "any"],
     [text |-> "Write down what would make you abandon this", interp |-> FALSE, kind |-> "review", proposes |-> {}, when |-> "complete"],
     [text |-> "Schedule a check-in with someone who has a stake in this", interp |-> FALSE, kind |-> "review", proposes |-> {}, when |-> "any"] >>

\* A suggestion title: the template's text and the value interpolated into
\* it (none: NoText).
Title(text, arg) == [text |-> text, arg |-> arg]

\* title.toLowerCase(), the key of the final selection.  The texts of the
\* engine differ from one another in lower case as well, so a text stands
\* for its lower-case form; the interpolated words are lowered.
TitleKey(title) ==
  Title(title.text, Text(title.arg.lead, LowerWords(title.arg.words)))

Suggestion(title, kind, proposes) ==
  [title |-> title, kind |-> kind, proposes |-> proposes]

\* buildTemplates: the table of the decision's type, `${n}` filled in.
buildTemplates(d, dtype) ==
  LET n == Text(FALSE, normalize(d.title))
      table == CASE dtype = "habit" -> HabitTemplates
                 [] dtype = "study" -> StudyTemplates
                 [] dtype = "product" -> ProductTemplates
                 [] dtype = "vendor" -> VendorTemplates
                 [] dtype = "strategy" -> StrategyTemplates
                 [] OTHER -> GeneralTemplates
  IN [i \in 1..Len(table) |->
        Put(table[i], "title", Title(table[i].text, IF table[i].interp THEN n ELSE NoText))]

\* The validation text for a decision's type and completeness.
ValidationText(dtype, isComplete) ==
  CASE dtype = "habit" ->
         IF isComplete THEN "Write down your top 3 relapse triggers for \"${n}\""
         ELSE "What one environment change would make \"${n}\" easier?"
    [] dtype = "study" -> "Try explaining the core concept in 2 sentences"
    [] dtype = "vendor" -> "Write down the cost of choosing wrong"
    [] dtype = "product" ->
         IF isComplete
         THEN "Name the riskiest assumption behind \"${n}\" and sketch a 30-min test"
         ELSE "If this feature fails, what signal will you see first?"
    [] dtype = "strategy" ->
         IF isComplete THEN "Spend 5 min on a pre-mortem: assume \"${n}\" failed - why?"
         ELSE "Ask one stakeholder: does this match what you expect?"
    [] OTHER ->
         IF isComplete THEN "List 3 things that would make you walk away from \"${n}\""
         ELSE "What's the single biggest risk to \"${n}\"?"

\* The validation texts that interpolate the normalized title.
ValidationInterpolates(dtype, isComplete) ==
  \/ dtype \in {"habit", "general"}
  \/ dtype \in {"product", "strategy"} /\ isComplete

\* Variant of buildValidationSuggestion that returns a next-action.
M_buildValidationAsNextAction(d, dtype) ==
  Suggestion(Title("Write one sentence: how do you know \"${n}\" is done?",
                   Text(FALSE, normalize(d.title))), "next-action", {})

buildValidationSuggestion(d, dtype) ==
  LET n == Text(FALSE, normalize(d.title))
  IN IF isActionPrefixed(d.title)
     THEN Suggestion(Title("Write one sentence: how do you know \"${n}\" is done?", n),
                     "validation", {})
     ELSE Suggestion(Title(ValidationText(dtype, isCompleteOf(d)),
                           IF ValidationInterpolates(dtype, isCompleteOf(d)) THEN n ELSE NoText),
                     "validation", {})

\* Variant of Eligible that lets every template through.
M_EligibleUnfiltered(templates, isComplete) == templates

\* templates.filter(...): by completeness state.
Eligible(templates, isComplete) ==
  SelectSeq(templates, LAMBDA t :
    \/ t.when = "any"
    \/ t.when = "missing" /\ ~isComplete
    \/ t.when = "complete" /\ isComplete)

fieldPriority(t) ==
  IF ~Has(t, "fills") THEN 10
  ELSE IF t.fills = "outcome" THEN 0 ELSE IF t.fills = "metric" THEN 1 ELSE 2

\* eligible.sort((a, b) => pa - pb): a stable sort by priority.
SortByPriority(el) ==
  SelectSeq(el, LAMBDA t : fieldPriority(t) = 0)
    \o SelectSeq(el, LAMBDA t : fieldPriority(t) = 1)
    \o SelectSeq(el, LAMBDA t : fieldPriority(t) = 2)
    \o SelectSeq(el, LAMBDA t : fieldPriority(t) = 10)

FromTemplate(t) == Suggestion(t.title, t.kind, t.proposes)

HasTitle(cands, title) == \E i \in 1..Len(cands) : cands[i].title = title

\* The first loop over the eligible templates: up to 2, one per filled field.
RECURSIVE PickFilling(_, _, _, _)
PickFilling(el, i, cands, filled) ==
  IF i > Len(el) \/ Len(cands) >= 2 THEN [cands |-> cands, filled |-> filled]
  ELSE IF Has(el[i], "fills") /\ el[i].fills \in filled
  THEN PickFilling(el, i + 1, cands, filled)
  ELSE PickFilling(el, i + 1, Append(cands, FromTemplate(el[i])),
                   IF Has(el[i], "fills") THEN filled \cup {el[i].fills} ELSE filled)

\* The second loop: up to 3 candidates in all.
RECURSIVE PickVariety(_, _, _, _)
PickVariety(el, i, cands, filled) ==
  IF i > Len(el) \/ Len(cands) >= 3 THEN cands
  ELSE IF HasTitle(cands, el[i].title) THEN PickVariety(el, i + 1, cands, filled)
  ELSE IF Has(el[i], "fills") /\ el[i].fills \in filled
  THEN PickVariety(el, i + 1, cands, filled)
  ELSE PickVariety(el, i + 1, Append(cands, FromTemplate(el[i])), filled)

\* 1) Type-aware templates.
TemplateCandidates(d, dtype) ==
  LET el == SortByPriority(Eligible(buildTemplates(d, dtype), isCompleteOf(d)))
      first == PickFilling(el, 1, <<>>, {})
  IN PickVariety(el, 1, first.cands, first.filled)

\* 2) Ambiguous-verb heuristic.
AmbiguousCandidates(d) ==
  IF hasAmbiguousVerb(d.title) /\ ~Truthy(d, "metric")
  THEN << Suggestion(Title("Replace \"${verb}\" with a specific, measurable target",
                           Text(FALSE, <<FirstAmbiguousVerb(d.title)>>)),
                     "next-action", {"metric"}) >>
  ELSE <<>>

\* /break.*into.*step/i on a candidate's title: no text of the engine has
\* the three words, so the match is on the interpolated words.
BreakIntoSteps(title) ==
  LET ws == LowerWords(title.arg.words)
  IN \E i, j, k \in 1..Len(ws) :
       i < j /\ j < k /\ ws[i] = "break" /\ ws[j] = "into" /\ ws[k] \in {"step", "steps"}

\* 3) Action-prefix handling.
ActionCandidates(d, cands) ==
  IF ~isActionPrefixed(d.title) THEN cands
  ELSE SelectSeq(cands, LAMBDA c : ~BreakIntoSteps(c.title))
         \o (IF ~Truthy(d, "outcome")
             THEN << Suggestion(Title("Write acceptance criteria for this action", NoText),
                                "next-action", {"outcome"}) >>
             ELSE <<>>)
         \o (IF ~Truthy(d, "metric")
             THEN << Suggestion(Title("Add a concrete done-check", NoText),
                                "next-action", {"metric"}) >>
             ELSE <<>>)

\* The score a reuse suggestion needs: bestScore >= 0.25.
REUSE_THRESHOLD == Ratio(1, 4)

\* The similarity loop: the first of the other decisions with the highest
\* score above 0 (match is its position, 0 for null).
RECURSIVE BestMatch(_, _, _, _)
BestMatch(d, all, i, best) ==
  IF i > Len(all) THEN best
  ELSE IF all[i].id = d.id THEN BestMatch(d, all, i + 1, best)
  ELSE LET score == jaccard(tokens(d.title), tokens(all[i].title))
       IN IF Greater(score, best.score)
          THEN BestMatch(d, all, i + 1, [score |-> score, match |-> i])
          ELSE BestMatch(d, all, i + 1, best)

bestMatchOf(d, all) == BestMatch(d, all, 1, [score |-> Ratio(0, 1), match |-> 0])

\* Variant of ReuseQualifies that wants a score above the threshold.
M_ReuseQualifiesAbove(best) ==
  best.match # 0 /\ Greater(best.score, REUSE_THRESHOLD)

\* bestMatch && bestScore >= 0.25
ReuseQualifies(best) ==
  best.match # 0 /\ AtLeast(best.score, REUSE_THRESHOLD)

\* 4) Similarity reuse: the single most valuable field of the best match.
ReuseCandidates(d, all) ==
  LET best == bestMatchOf(d, all)
  IN IF ~ReuseQualifies(best) THEN <<>>
     ELSE LET m == all[best.match]
          IN IF ~Truthy(d, "outcome") /\ Truthy(m, "outcome")
             THEN << Suggestion(Title("Use the same outcome framing as \"${bestMatch.title}\"",
                                      m.title), "follow-up", {"outcome"}) >>
             ELSE IF ~Truthy(d, "metric") /\ Truthy(m, "metric")
             THEN << Suggestion(Title("Reuse the metric from \"${bestMatch.title}\"",
                                      m.title), "follow-up", {"metric"}) >>
             ELSE IF ~Truthy(d, "horizon") /\ Truthy(m, "horizon")
             THEN << Suggestion(Title("Sync the timeline with \"${bestMatch.title}\"",
                                      m.title), "follow-up", {"horizon"}) >>
             ELSE <<>>

unblockOptions ==
  << Suggestion(Title("Book a 30-min stakeholder review this week", NoText), "review", {}),
     Suggestion(Title("Write a 1-page decision memo", NoText), "next-action", {}),
     Suggestion(Title("Run a 30-min experiment to test your key assumption", NoText),
                "next-action", {}) >>

\* 5) In-progress unblock: the first option that is not a candidate yet.
UnblockCandidates(d, cands) ==
  LET free == {i \in 1..Len(unblockOptions) : ~HasTitle(cands, unblockOptions[i].title)}
  IN IF Has(d, "status") /\ d.status = "in-progress" /\ isCompleteOf(d) /\ free # {}
     THEN << unblockOptions[CHOOSE i \in free : \A j \in free : i <= j] >>
     ELSE <<>>

CountStatus(all, st) ==
  Cardinality({i \in 1..Len(all) : Has(all[i], "status") /\ all[i].status = st})

\* 6) Tracker-state suggestions.
TrackerStateCandidates(all) ==
  (IF CountStatus(all, "todo") >= 4 /\ CountStatus(all, "in-progress") = 0
   THEN << Suggestion(Title("Pick one decision and start it now", NoText), "review", {}) >>
   ELSE <<>>)
    \o (IF CountStatus(all, "in-progress") >= 2
        THEN << Suggestion(Title("Pause one in-progress decision to focus", NoText),
                           "cleanup", {}) >>
        ELSE <<>>)
    \o (IF CountStatus(all, "done") >= 5
        THEN << Suggestion(Title("Review what you've finished before adding more", NoText),
                           "review", {}) >>
        ELSE <<>>)

\* The candidates in the order generateSuggestions pushes them.
Candidates(d, all) ==
  LET dtype == classifyDecision(d)
      c2 == TemplateCandidates(d, dtype) \o AmbiguousCandidates(d)
      c3 == ActionCandidates(d, c2)
      c4 == c3 \o ReuseCandidates(d, all)
      c5 == c4 \o UnblockCandidates(d, c4)
      c6 == c5 \o TrackerStateCandidates(all)
  IN Append(c6, buildValidationSuggestion(d, dtype))

\* First pass: up to 2 suggestions that are not validations.
RECURSIVE FirstPass(_, _, _)
FirstPass(cands, i, unique) ==
  IF i > Len(cands) \/ Len(unique) >= 2 THEN unique
  ELSE IF cands[i].kind = "validation"
          \/ \E j \in 1..Len(unique) : TitleKey(unique[j].title) = TitleKey(cands[i].title)
  THEN FirstPass(cands, i + 1, unique)
  ELSE FirstPass(cands, i + 1, Append(unique, cands[i]))

Seen(unique) == {TitleKey(unique[j].title) : j \in 1..Len(unique)}

\* The validation slot: the first validation whose title was not seen.
ValidationPass(cands, unique) ==
  LET hits == {i \in 1..Len(cands) :
                 cands[i].kind = "validation" /\ TitleKey(cands[i].title) \notin Seen(unique)}
  IN IF hits = {} THEN unique
     ELSE Append(unique, cands[CHOOSE i \in hits : \A j \in hits : i <= j])

\* Variant of ReusePass that takes the first unseen candidate of any kind.
M_ReusePassAnyKind(cands, unique) ==
  LET hits == {i \in 1..Len(cands) : TitleKey(cands[i].title) \notin Seen(unique)}
  IN IF Len(unique) >= 4 \/ hits = {} THEN unique
     ELSE Append(unique, cands[CHOOSE i \in hits : \A j \in hits : i <= j])

\* A 4th: the first reuse or follow-up whose title was not seen.
ReusePass(cands, unique) ==
  LET hits == {i \in 1..Len(cands) :
                 cands[i].kind \in {"follow-up", "reuse"}
                   /\ TitleKey(cands[i].title) \notin Seen(unique)}
  IN IF Len(unique) >= 4 \/ hits = {} THEN unique
     ELSE Append(unique, cands[CHOOSE i \in hits : \A j \in hits : i <= j])

generateSuggestions(d, all) ==
  LET cands == Candidates(d, all)
  IN ReusePass(cands, ValidationPass(cands, FirstPass(cands, 1, <<>>)))

\* ------------------------------- suggestion requests (SpecSuggest)

\* Largest number of decisions in the tracker a suggestion request reads.
MaxDecisions == 2

\* The titles of the decision asked about: an optional "Action:" prefix, an
\* optional word that is a keyword of one of the five types, and an optional
\* ambiguous verb, plain word, or "break into steps"; at least one word.
TopicWords == {"run", "exam", "ship", "tool", "okr"}

SuggestTitles ==
  {Text(FALSE, p \o t \o w) :
     p \in {<<>>, <<"Action:">>},
     t \in {<<>>} \cup {<<x>> : x \in TopicWords},
     w \in {<<>>, <<"fix">>, <<"tax">>, <<"break", "into", "steps">>}}
    \ {Text(FALSE, <<>>), Text(FALSE, <<"Action:">>)}

\* outcome, metric, horizon of a request body: absent or a string, the
\* outcome possibly the empty string.
SuggestFields ==
  {f \in Patches : \A k \in DOMAIN f : k = "outcome" \/ f[k] = "v"}

\* The decision a POST /suggestions body describes.
DecisionInput(id, title, status, fields) ==
  LET base == [x \in {"id", "title"} \cup DOMAIN fields |->
                 IF x = "id" THEN id ELSE IF x = "title" THEN title ELSE fields[x]]
  IN IF status = "undefined" THEN base ELSE Put(base, "status", status)

Decisions ==
  {DecisionInput(1, title, status, fields) :
     title \in SuggestTitles, status \in {"undefined", "in-progress"},
     fields \in SuggestFields}

\* The decisions the tracker holds when the request comes.
StoredDecisions(id) ==
  {DecisionInput(id, Text(FALSE, <<w>>), status, fields) :
     w \in {"tax"}, status \in {"todo", "in-progress"},
     fields \in {NoObj, [outcome |-> "v", metric |-> "v", horizon |-> "v"]}}

Suggested == result.op = "generateSuggestions"

\* A task is stored in the tracker.
StoreDecision(d) ==
  /\ Len(tasks) < MaxDecisions
  /\ tasks' = Append(tasks, d)
  /\ nextId' = nextId + 1
  /\ result' = [NoResult EXCEPT !.op = "addTask", !.id = nextId]
  /\ UNCHANGED <<file, writers, acked, llm, reflections, now>>

\* POST /suggestions without an API key: generateSuggestions(decision,
\* allDecisions) on the request's decision and the tracker's tasks.  The
\* call reads nothing but its two arguments, so a request that follows
\* another request's answer is the same request made before it.
Suggest(d) ==
  /\ ~Suggested
  /\ result' = [NoResult EXCEPT !.op = "generateSuggestions", !.id = d.id, !.value = d,
                                !.list = generateSuggestions(d, tasks)]
  /\ UNCHANGED <<tasks, nextId, file, writers, acked, llm, reflections, now>>

NextSuggest ==
  \/ \E d \in StoredDecisions(nextId) : StoreDecision(d)
  \/ \E d \in Decisions : Suggest(d)

SpecSuggest == Init /\ [][NextSuggest]_vars

KindCount(list, kind) == Cardinality({i \in 1..Len(list) : list[i].kind = kind})

\* C12: generateSuggestions returns between 1 and 4 suggestions, exactly one
\* of them of kind validation, for every decision and every list of stored
\* decisions.
C12_OneValidationUpToFour ==
  Suggested =>
    /\ Len(result.list) >= 1 /\ Len(result.list) <= 4
    /\ KindCount(result.list, "validation") = 1

\* Four suggestions were returned: two from templates, the validation and a
\* follow-up that reuses a field of a similar stored decision.
C12_Witness ==
  /\ Suggested
  /\ Len(result.list) = 4
  /\ result.list[3].kind = "validation"
  /\ result.list[4].kind = "follow-up"

\* The templates of the decision's type whose title a returned suggestion has.
ReturnedTemplates(d, list) ==
  LET T == buildTemplates(d, classifyDecision(d))
  IN {T[i] : i \in {j \in 1..Len(T) : \E k \in 1..Len(list) : list[k].title = T[j].title}}

\* C13: no returned suggestion is built from a template tagged missing when
\* outcome, metric and horizon are all set, and none from a template tagged
\* complete when one of the three is unset.
C13_TemplatesMatchCompleteness ==
  Suggested =>
    \A t \in ReturnedTemplates(result.value, result.list) :
      /\ t.when = "missing" => ~isCompleteOf(result.value)
      /\ t.when = "complete" => isCompleteOf(result.value)

\* A complete decision was given a suggestion from a template tagged complete
\* of a type that has templates tagged missing as well.
C13_Witness ==
  /\ Suggested
  /\ isCompleteOf(result.value)
  /\ \E t \in ReturnedTemplates(result.value, result.list) : t.when = "complete"
  /\ classifyDecision(result.value) = "vendor"

\* ------------------------------- similar titles (SpecSimilar)

\* The subsequences of ws: its words at the positions of a set, in order.
RECURSIVE SubSeqAt(_, _, _)
SubSeqAt(ws, i, keep) ==
  IF i > Len(ws) THEN <<>>
  ELSE (IF i \in keep THEN <<ws[i]>> ELSE <<>>) \o SubSeqAt(ws, i + 1, keep)

SubSeqs(ws) == {SubSeqAt(ws, 1, keep) : keep \in SUBSET (1..Len(ws))}

\* The titles asked about: any of the words tax, pay, ship, go in this
\* order, a leading tax possibly capitalized, plain or behind "Action:" or
\* behind whitespace and "Action:".
SimilarTitles ==
  {Text(lead, p \o ws) :
     lead \in BOOLEAN, p \in {<<>>, <<"Action:">>},
     ws \in SubSeqs(<<"tax", "pay", "ship", "go">>) \cup SubSeqs(<<"Tax", "pay", "ship", "go">>)}
    \ {Text(TRUE, ws) : ws \in SubSeqs(<<"tax", "pay", "ship", "go">>)
                                 \cup SubSeqs(<<"Tax", "pay", "ship", "go">>)}

\* The decision asked about is the first stored one or one that is not
\* stored.
SimilarDecisions ==
  {DecisionInput(id, title, "undefined", fields) :
     id \in {1, MaxDecisions + 1},
     title \in SimilarTitles, fields \in {NoObj, [outcome |-> "v"]}}

\* The stored decisions: titles that score 0, 1/5, 1/4, 1/3, 1/2 and 1
\* against the titles asked about, with an outcome or without.
SimilarStored(id) ==
  {DecisionInput(id, Text(FALSE, ws), "todo", fields) :
     ws \in {<<"go">>, <<"tax">>, <<"fix", "run">>, <<"tax", "fix", "run">>},
     fields \in {NoObj, [outcome |-> "v"]}}

NextSimilar ==
  \/ \E d \in SimilarStored(nextId) : StoreDecision(d)
  \/ \E d \in SimilarDecisions : Suggest(d)

SpecSimilar == Init /\ [][NextSimilar]_vars

\* The score of the decision asked about against stored decision i.
ScoreAgainst(i) == jaccard(tokens(result.value.title), tokens(tasks[i].title))

\* The stored decisions that are not the one asked about.
Others == {i \in 1..Len(tasks) : tasks[i].id # result.value.id}

FollowUps == {k \in 1..Len(result.list) : result.list[k].kind = "follow-up"}

\* The threshold part of C14: a follow-up is returned only if some other
\* decision scores at least 1/4, it names a decision no other outscores, and
\* one is returned when some other decision scores at least 1/4 (1/4 itself
\* included), the decision asked about has no outcome and every other has.
ReuseOnlyFromThreshold ==
  /\ \A k \in FollowUps :
       \E i \in Others :
         /\ AtLeast(ScoreAgainst(i), Ratio(1, 4))
         /\ result.list[k].title.arg = tasks[i].title
         /\ \A j \in Others : ~Greater(ScoreAgainst(j), ScoreAgainst(i))
  /\ ((\E i \in Others : AtLeast(ScoreAgainst(i), Ratio(1, 4)))
        /\ ~Truthy(result.value, "outcome")
        /\ \A j \in Others : Truthy(tasks[j], "outcome"))
       => FollowUps # {}

IsOne(x) == x.num = x.den /\ x.den # 0

IsZero(x) == x.num = 0 /\ x.den # 0

\* C14 as claimed, on the decision asked about and each other stored
\* decision: any two identical titles score 1, two titles sharing no
\* token longer than 2 characters score 0, and the reuse suggestion comes
\* from a best score of at least 1/4 only.
C14_IdenticalScoreOne ==
  Suggested =>
    /\ \A i \in Others :
         /\ tasks[i].title = result.value.title => IsOne(ScoreAgainst(i))
         /\ tokens(tasks[i].title) \cap tokens(result.value.title) = {}
              => IsZero(ScoreAgainst(i))
    /\ ReuseOnlyFromThreshold

\* C14 amended, on the decision asked about and each other stored
\* decision: two identical titles that have a token longer than 2
\* characters score 1, two titles without such a token score 0 even when
\* identical, two titles sharing no such token score 0, and the reuse
\* suggestion comes from a best score of at least 1/4 only.
C14_IdenticalWithTokensScoreOne ==
  Suggested =>
    /\ \A i \in Others :
         /\ (tasks[i].title = result.value.title /\ tokens(tasks[i].title) # {})
              => IsOne(ScoreAgainst(i))
         /\ tokens(tasks[i].title) \cap tokens(result.value.title) = {}
              => IsZero(ScoreAgainst(i))
    /\ ReuseOnlyFromThreshold

\* A follow-up was returned for a decision whose best other decision scores
\* exactly 1/4, next to another decision that scores less.
C14_Witness ==
  /\ Suggested
  /\ FollowUps # {}
  /\ \E i \in Others :
       /\ ScoreAgainst(i).num * 4 = ScoreAgainst(i).den
       /\ \A j \in Others : ~Greater(ScoreAgainst(j), ScoreAgainst(i))
  /\ \E j \in Others : IsZero(ScoreAgainst(j))

\* ------------------------------------- morning briefing (morning-briefing.ts)

\* A title is truthy when it is not the empty string.
TruthyTitle(t) == t.title # NoText

\* clarityScore: 25 for a title and for each clarity field that is set.
clarityScore(t) ==
  (IF TruthyTitle(t) THEN 25 ELSE 0)
    + (IF Truthy(t, "outcome") THEN 25 ELSE 0)
    + (IF Truthy(t, "metric") THEN 25 ELSE 0)
    + (IF Truthy(t, "horizon") THEN 25 ELSE 0)

ActiveStatus(t) == t.status \in {"in-progress", "todo"}

\* goals.filter(active).sort(...): in-progress before todo, then the higher
\* clarity score first; the sort is stable.
SortActive(goals) ==
  LET by(st, score) ==
        SelectSeq(goals, LAMBDA g : g.status = st /\ clarityScore(g) = score)
      byStatus(st) == by(st, 100) \o by(st, 75) \o by(st, 50) \o by(st, 25) \o by(st, 0)
  IN byStatus("in-progress") \o byStatus("todo")

\* actions.find(a => a.status === st): the position of the first child of
\* goal g in that status, 0 when there is none.
FindAction(allTasks, g, st) ==
  LET hits == {i \in 1..Len(allTasks) :
                 Has(allTasks[i], "parentId") /\ allTasks[i].parentId = g.id
                   /\ allTasks[i].status = st}
  IN IF hits = {} THEN 0 ELSE CHOOSE i \in hits : \A j \in hits : i <= j

\* Variant of ChooseAction that prefers a todo child to one in progress.
M_ChooseActionTodoFirst(allTasks, g) ==
  LET ip == FindAction(allTasks, g, "in-progress")
      td == FindAction(allTasks, g, "todo")
  IN IF td # 0
     THEN [type |-> "start_existing_action", actionId |-> allTasks[td].id,
           actionTitle |-> Title("${todoAction.title}", allTasks[td].title)]
     ELSE IF ip # 0
     THEN [type |-> "finish_existing_action", actionId |-> allTasks[ip].id,
           actionTitle |-> Title("${inProgressAction.title}", allTasks[ip].title)]
     ELSE [type |-> "create_new_action",
           actionTitle |-> Title("Define next step for \"${g.title}\"", g.title)]

\* The one action of a focus goal.
ChooseAction(allTasks, g) ==
  LET ip == FindAction(allTasks, g, "in-progress")
      td == FindAction(allTasks, g, "todo")
  IN IF ip # 0
     THEN [type |-> "finish_existing_action", actionId |-> allTasks[ip].id,
           actionTitle |-> Title("${inProgressAction.title}", allTasks[ip].title)]
     ELSE IF td # 0
     THEN [type |-> "start_existing_action", actionId |-> allTasks[td].id,
           actionTitle |-> Title("${todoAction.title}", allTasks[td].title)]
     ELSE [type |-> "create_new_action",
           actionTitle |-> Title("Define next step for \"${g.title}\"", g.title)]

whyNowOf(action, g) ==
  IF action.type = "finish_existing_action"
  THEN "This action is already in progress - finishing it moves the goal forward."
  ELSE IF action.type = "start_existing_action"
  THEN IF g.status = "in-progress"
       THEN "This goal is active but needs its next action started."
       ELSE "Starting this action gets the goal moving."
  ELSE "This goal has no actions yet - defining one makes it concrete."

FocusItem(allTasks, g) ==
  LET action == ChooseAction(allTasks, g)
  IN [goalId |-> g.id, goalTitle |-> g.title, whyNow |-> whyNowOf(action, g),
      action |-> action]

\* .slice(0, 2)
FirstTwo(s) == SubSeq(s, 1, IF Len(s) < 2 THEN Len(s) ELSE 2)

generateBriefingDeterministic(goals, allTasks, userName) ==
  LET active == FirstTwo(SortActive(SelectSeq(goals, ActiveStatus)))
      focus == [k \in 1..Len(active) |-> FocusItem(allTasks, active[k])]
  IN [greeting |-> IF userName # "" THEN "Good morning, ${userName}." ELSE "Good morning.",
      headline |-> IF Len(focus) > 1 THEN "You have 2 goals that could use attention today."
                   ELSE IF Len(focus) > 0
                   THEN "You have 1 goal that could use attention today."
                   ELSE "No active goals right now.",
      focus |-> focus,
      cta |-> [label |-> "Start your day", microcopy |-> "Pick one and make progress."]]

\* !t.parentId: no parentId, or 0.
NoParent(t) == ~Has(t, "parentId") \/ t.parentId = 0

\* allTasks.filter(t => !t.parentId && (in-progress || todo))
BriefingGoals(allTasks) == SelectSeq(allTasks, LAMBDA t : NoParent(t) /\ ActiveStatus(t))

\* ------------------------------------------ replies of the language model

\* What the awaited client.messages.create call can do: reject (the import
\* or the call throws), resolve to a message without a text block, resolve
\* to a message whose text is not JSON, or to one whose text parses to json.
Rejected == [kind |-> "rejected"]

NoTextBlock == [kind |-> "no_text"]

MalformedText == [kind |-> "malformed"]

JsonText(json) == [kind |-> "json", json |-> json]

\* String.trim, on the strings the replies are made of.
Trim(s) == IF s = " " THEN "" ELSE s

\* A parsed JSON array; an object is a record of its keys (IsRecord).
JsonArray(items) == [json |-> "array", items |-> items]

\* Array.isArray(v) for a key that may be missing.
IsArrayAt(o, k) == Has(o, k) /\ Has(o[k], "json") /\ o[k].json = "array"

\* String.trim on a title: the leading whitespace goes.
TrimText(t) == Text(FALSE, t.words)

validTypes == {"start_existing_action", "finish_existing_action", "create_new_action"}

\* The checks of parseBriefingResponse on one element of parsed.focus.
ValidFocusItem(item) ==
  /\ IsRecord(item)
  /\ Has(item, "goalId")
  /\ Has(item, "goalTitle") /\ TrimText(item.goalTitle) # NoText
  /\ Has(item, "whyNow") /\ Trim(item.whyNow) # ""
  /\ Has(item, "action") /\ Has(item.action, "type")
  /\ item.action.type \in validTypes
  /\ Has(item.action, "actionTitle") /\ Trim(item.action.actionTitle.text) # ""
  /\ item.action.type # "create_new_action" => Has(item.action, "actionId")

\* The focus item built from a valid element: the strings trimmed, the
\* actionId kept for the start and finish types and left undefined for
\* create_new_action.
ParsedFocusItem(item) ==
  [goalId |-> item.goalId, goalTitle |-> TrimText(item.goalTitle),
   whyNow |-> Trim(item.whyNow),
   action |-> IF item.action.type = "create_new_action"
              THEN [type |-> item.action.type,
                    actionTitle |-> Title(Trim(item.action.actionTitle.text),
                                         item.action.actionTitle.arg)]
              ELSE [type |-> item.action.type, actionId |-> item.action.actionId,
                    actionTitle |-> Title(Trim(item.action.actionTitle.text),
                                         item.action.actionTitle.arg)]]

\* The absent value: parseBriefingResponse returned null.
Null == [kind |-> "null"]

\* cta: a label or microcopy that is not a string gets the default.
ParsedCta(cta) ==
  [label |-> IF Has(cta, "label") THEN cta.label ELSE "Start your day",
   microcopy |-> IF Has(cta, "microcopy") THEN cta.microcopy ELSE ""]

\* parseBriefingResponse: null unless the text parses to an object with a
\* greeting, a headline, a focus array and a cta; the first two valid focus
\* items are kept, and null is returned when there is none.
parseBriefingResponse(text) ==
  IF text.kind # "json" THEN Null
  ELSE LET parsed == text.json
       IN IF ~IsRecord(parsed) \/ ~Has(parsed, "greeting") \/ ~Has(parsed, "headline")
             \/ ~IsArrayAt(parsed, "focus") \/ ~Has(parsed, "cta")
          THEN Null
          ELSE LET valid == FirstTwo(SelectSeq(parsed.focus.items, ValidFocusItem))
               IN IF Len(valid) = 0 THEN Null
                  ELSE [greeting |-> parsed.greeting, headline |-> parsed.headline,
                        focus |-> [k \in 1..Len(valid) |-> ParsedFocusItem(valid[k])],
                        cta |-> ParsedCta(parsed.cta)]

\* generateBriefingLLM after the awaited call settled with reply; fallback
\* is generateBriefingDeterministic(goals, allTasks, userName), the value of
\* every return statement but the last, which depends on the call's
\* arguments alone.
BriefingFromReply(fallback, reply) ==
  IF reply.kind \in {"rejected", "no_text"} THEN fallback
  ELSE IF parseBriefingResponse(reply) = Null THEN fallback
  ELSE parseBriefingResponse(reply)

validKinds ==
  {"next-action", "split", "review", "follow-up", "cleanup",
   "outcome", "metric", "horizon", "execution", "reuse", "validation"}

\* The checks of parseLLMResponse on one element of the array.
UsableSuggestion(item) ==
  IsRecord(item) /\ Has(item, "title") /\ Has(item, "rationale")

\* The suggestion built from a usable element: a kind that is not one of
\* validKinds becomes next-action.
ParsedSuggestion(item) ==
  Suggestion(item.title,
             IF Has(item, "kind") /\ item.kind \in validKinds THEN item.kind
             ELSE "next-action",
             DOMAIN item \cap ClarityFields)

\* .slice of the loop that breaks at 4 results.
FirstFour(s) == SubSeq(s, 1, IF Len(s) < 4 THEN Len(s) ELSE 4)

\* parseLLMResponse throws: the text is not JSON, or parsed.suggestions is
\* there and cannot be iterated (a number).
parseLLMResponseThrows(text) ==
  \/ text.kind = "malformed"
  \/ /\ text.kind = "json" /\ IsRecord(text.json) /\ Has(text.json, "suggestions")
     /\ ~IsArrayAt(text.json, "suggestions")

\* parseLLMResponse: the usable elements of the parsed array, or of
\* parsed.suggestions, up to 4.
parseLLMResponse(text) ==
  LET parsed == text.json
      arr == IF IsRecord(parsed)
             THEN IF Has(parsed, "suggestions") THEN parsed.suggestions.items ELSE <<>>
             ELSE IF parsed.json = "array" THEN parsed.items ELSE <<>>
      usable == SelectSeq(arr, UsableSuggestion)
  IN FirstFour([k \in 1..Len(usable) |-> ParsedSuggestion(usable[k])])

\* generateSuggestionsLLM after the awaited call settled with reply; fallback
\* is generateSuggestions(decision, allDecisions), the value of every return
\* statement but the last.
SuggestionsFromReply(fallback, reply) ==
  IF reply.kind \in {"rejected", "no_text"} \/ parseLLMResponseThrows(reply)
  THEN fallback
  ELSE IF Len(parseLLMResponse(reply)) = 0 THEN fallback
  ELSE parseLLMResponse(reply)

\* ----------------------------------------- the deterministic briefing, checked

MaxBriefTasks == 3

UserNames == {"", "Ann"}

\* The tasks generateBriefingLLM can be handed: the next id, one title, any
\* status, with or without an outcome, top-level or a child of task 1.
BriefTasks(id) ==
  {DecisionInput(id, Text(FALSE, <<"tax">>), status, fields) :
     status \in {"todo", "in-progress", "done"},
     fields \in {NoObj, [outcome |-> "v"], [parentId |-> 1],
                 [outcome |-> "v", parentId |-> 1]}}

Briefed == result.op = "generateBriefing"

\* A task is stored in the tracker.
StoreBriefTask(t) ==
  /\ Len(tasks) < MaxBriefTasks
  /\ tasks' = Append(tasks, t)
  /\ nextId' = nextId + 1
  /\ result' = [NoResult EXCEPT !.op = "addTask", !.id = nextId]
  /\ UNCHANGED <<file, writers, acked, llm, reflections, now>>

\* generateBriefingLLM(allTasks, reflections, userName) without an API key:
\* the deterministic briefing of the top-level active goals.
Brief(userName) ==
  /\ ~Briefed
  /\ result' = [NoResult EXCEPT
                  !.op = "generateBriefing",
                  !.value = generateBriefingDeterministic(BriefingGoals(tasks), tasks,
                                                          userName)]
  /\ UNCHANGED <<tasks, nextId, file, writers, acked, llm, reflections, now>>

NextBrief ==
  \/ \E t \in BriefTasks(nextId) : StoreBriefTask(t)
  \/ \E userName \in UserNames : Brief(userName)

SpecBrief == Init /\ [][NextBrief]_vars

\* The positions of the goals a briefing may focus on.
EligibleGoals == {i \in 1..Len(tasks) : ~Has(tasks[i], "parentId") /\ ActiveStatus(tasks[i])}

\* Goal tasks[i] comes strictly before goal tasks[j] in the briefing's order.
Before(i, j) ==
  \/ tasks[i].status = "in-progress" /\ tasks[j].status = "todo"
  \/ tasks[i].status = tasks[j].status /\ clarityScore(tasks[i]) > clarityScore(tasks[j])

ChildrenIn(i, st) ==
  {j \in 1..Len(tasks) : Has(tasks[j], "parentId") /\ tasks[j].parentId = tasks[i].id
                           /\ tasks[j].status = st}

\* The position in tasks of the goal of focus item k.
GoalOf(k) == CHOOSE i \in 1..Len(tasks) : tasks[i].id = result.value.focus[k].goalId

\* C16: the deterministic briefing focuses on top-level todo or in-progress
\* goals only, in-progress before todo and higher clarity score first, the
\* first two of them, each with one action: finish an in-progress child,
\* else start a todo child, else create a new action; without eligible goals
\* the focus is empty and the briefing is returned all the same.
C16_DeterministicBriefing ==
  Briefed =>
    LET focus == result.value.focus
        n == Cardinality(EligibleGoals)
    IN /\ ~result.threw /\ result.ok
       /\ Len(focus) = IF n < 2 THEN n ELSE 2
       /\ \A k \in 1..Len(focus) :
            /\ \E i \in EligibleGoals : tasks[i].id = focus[k].goalId
            /\ \A j \in EligibleGoals : Before(j, GoalOf(k)) =>
                 \E l \in 1..(k - 1) : GoalOf(l) = j
            /\ \A l \in 1..Len(focus) : l # k => focus[l].goalId # focus[k].goalId
            /\ LET a == focus[k].action
                   ip == ChildrenIn(GoalOf(k), "in-progress")
                   td == ChildrenIn(GoalOf(k), "todo")
               IN IF ip # {}
                  THEN /\ a.type = "finish_existing_action"
                       /\ \E j \in ip : a.actionId = tasks[j].id
                  ELSE IF td # {}
                  THEN /\ a.type = "start_existing_action"
                       /\ \E j \in td : a.actionId = tasks[j].id
                  ELSE a.type = "create_new_action" /\ ~Has(a, "actionId")

\* Three eligible goals, the last stored one in progress: it comes first in
\* the focus, and the todo goal with an outcome takes the second place from
\* the todo goal stored before it.
C16_Witness ==
  /\ Briefed
  /\ Cardinality(EligibleGoals) = 3
  /\ Len(result.value.focus) = 2
  /\ result.value.focus[1].goalId = 3
  /\ result.value.focus[2].goalId = 2
  /\ result.value.focus[1].action.type = "create_new_action"

\* A goal with a todo child stored before an in-progress child: the action is
\* to finish the child in progress.
C16_WitnessChildren ==
  /\ Briefed
  /\ Len(result.value.focus) = 1
  /\ ChildrenIn(1, "todo") = {2}
  /\ ChildrenIn(1, "in-progress") = {3}
  /\ result.value.focus[1].action.type = "finish_existing_action"

\* ------------------------------------------- requests that call the model

MaxLLMTasks == 2

MaxReplyItems == 3

\* The tasks of the tracker when a request comes.
LLMTasks(id) ==
  {DecisionInput(id, Text(FALSE, <<"tax">>), "todo", NoObj),
   DecisionInput(id, Text(FALSE, <<"tax">>), "in-progress", NoObj),
   DecisionInput(id, Text(FALSE, <<"tax">>), "todo", [parentId |-> 1])}

\* The decisions POST /suggestions is asked about.
LLMDecisions ==
  {DecisionInput(1, Text(FALSE, <<"tax">>), "in-progress", fields) :
     fields \in {NoObj, [outcome |-> "v", metric |-> "v", horizon |-> "v"]}}

\* process.env.ANTHROPIC_API_KEY: unset, or a key.
ApiKeys == {"", "sk"}

\* An id no task of the tracker has.
NoSuchTaskId == 99

\* Elements of a reply's focus array: a start of action 1, a finish of an
\* action the tracker does not hold, a create that carries an actionId, and
\* a start without actionId.
FocusElements ==
  LET item(type, ids) ==
        [goalId |-> 1, goalTitle |-> Text(FALSE, <<"tax">>), whyNow |-> "now",
         action |-> [x \in {"type", "actionTitle"} \cup DOMAIN ids |->
                       IF x = "type" THEN type
                       ELSE IF x = "actionTitle" THEN Title("do", NoText)
                       ELSE ids[x]]]
  IN {item("start_existing_action", [actionId |-> 1]),
      item("finish_existing_action", [actionId |-> NoSuchTaskId]),
      item("create_new_action", [actionId |-> 1]),
      item("start_existing_action", NoObj)}

\* The sequences over S of length up to n.
SeqUpTo(S, n) == UNION {[1..k -> S] : k \in 0..n}

FullCta == [label |-> "Go", microcopy |-> "You can."]

BriefingJson(focus, cta) ==
  [greeting |-> "Hi", headline |-> "Today", focus |-> focus, cta |-> cta]

\* What the call of generateBriefingLLM can settle with.
BriefingReplies ==
  {Rejected, NoTextBlock, MalformedText, JsonText(JsonNull),
   JsonText(Pick(BriefingJson(JsonArray(<<>>), FullCta), {"headline", "focus", "cta"})),
   JsonText(Pick(BriefingJson(JsonArray(<<>>), FullCta), {"greeting", "headline", "focus"})),
   JsonText(BriefingJson(JsonNumber, FullCta))}
    \cup {JsonText(BriefingJson(JsonArray(items), FullCta)) :
            items \in SeqUpTo(FocusElements, MaxReplyItems)}
    \cup {JsonText(BriefingJson(JsonArray(<<JsonNull, item>>), FullCta)) :
            item \in FocusElements}
    \cup {JsonText(BriefingJson(JsonArray(<<item>>), NoObj)) : item \in FocusElements}

\* Elements of a reply's suggestions: one of a known kind that proposes an
\* outcome, one of an unknown kind, and one without rationale.
SuggestionElements ==
  {[title |-> Title("Do it", NoText), rationale |-> "r", kind |-> "execution",
    outcome |-> "v"],
   [title |-> Title("Try it", NoText), rationale |-> "r", kind |-> "idea"],
   [title |-> Title("Skip it", NoText), kind |-> "review"],
   [title |-> Title("Ask it", NoText), rationale |-> "r", kind |-> "validation"]}

\* What the call of generateSuggestionsLLM can settle with: arrays, the
\* same wrapped in {suggestions: ...}, and values that are neither.
SuggestionReplies ==
  {Rejected, NoTextBlock, MalformedText, JsonText(JsonNull), JsonText(JsonNumber),
   JsonText(NoObj), JsonText([suggestions |-> JsonNumber])}
    \cup {JsonText(JsonArray(items)) : items \in SeqUpTo(SuggestionElements, MaxReplyItems)}
    \cup {JsonText(JsonArray(<<JsonNull, item>>)) : item \in SuggestionElements}
    \cup {JsonText(JsonArray([k \in 1..(MaxReplyItems + 2) |-> item])) :
            item \in SuggestionElements}
    \cup {JsonText([suggestions |-> JsonArray(<<item>>)]) : item \in SuggestionElements}

\* The awaited call of a request: where it stands, what was asked and with
\* which key, what the deterministic engine makes of the request's
\* arguments, and what the call settled with.
Call(pc, kind, arg, key, fallback, reply) ==
  [pc |-> pc, kind |-> kind, arg |-> arg, key |-> key, fallback |-> fallback,
   reply |-> reply]

NoReply == [kind |-> "none"]

\* A task is stored in the tracker between two requests.
StoreLLMTask(t) ==
  /\ llm.pc \in {"idle", "returned"}
  /\ Len(tasks) < MaxLLMTasks
  /\ tasks' = Append(tasks, t)
  /\ nextId' = nextId + 1
  /\ result' = [NoResult EXCEPT !.op = "addTask", !.id = nextId]
  /\ llm' = NoCall
  /\ UNCHANGED <<file, writers, acked, reflections, now>>

\* generateBriefingLLM up to its first await: without a key the
\* deterministic briefing is returned at once, with one the call is made.
RequestBriefing(apiKey, userName) ==
  /\ llm.pc = "idle"
  /\ LET fallback == generateBriefingDeterministic(BriefingGoals(tasks), tasks, userName)
     IN IF apiKey = ""
        THEN /\ llm' = Call("returned", "briefing", userName, apiKey, fallback, NoReply)
             /\ result' = [NoResult EXCEPT !.op = "generateBriefingLLM",
                                           !.value = fallback]
        ELSE /\ llm' = Call("awaiting", "briefing", userName, apiKey, fallback, NoReply)
             /\ result' = NoResult
  /\ UNCHANGED <<tasks, nextId, file, writers, acked, reflections, now>>

\* generateSuggestionsLLM up to its first await.
RequestSuggestions(apiKey, d) ==
  /\ llm.pc = "idle"
  /\ LET fallback == generateSuggestions(d, tasks)
     IN IF apiKey = ""
        THEN /\ llm' = Call("returned", "suggestions", d, apiKey, fallback, NoReply)
             /\ result' = [NoResult EXCEPT !.op = "generateSuggestionsLLM",
                                           !.list = fallback]
        ELSE /\ llm' = Call("awaiting", "suggestions", d, apiKey, fallback, NoReply)
             /\ result' = NoResult
  /\ UNCHANGED <<tasks, nextId, file, writers, acked, reflections, now>>

\* The service answers: the promise of client.messages.create settles.
\* Nothing in the program makes this step happen.
Settle(reply) ==
  /\ llm.pc = "awaiting"
  /\ llm' = [llm EXCEPT !.pc = "settled", !.reply = reply]
  /\ UNCHANGED <<tasks, nextId, result, file, writers, acked, reflections, now>>

\* The request resumes after its await and returns.
Continue ==
  /\ llm.pc = "settled"
  /\ llm' = [llm EXCEPT !.pc = "returned"]
  /\ result' = IF llm.kind = "briefing"
               THEN [NoResult EXCEPT
                       !.op = "generateBriefingLLM",
                       !.value = BriefingFromReply(llm.fallback, llm.reply)]
               ELSE [NoResult EXCEPT
                       !.op = "generateSuggestionsLLM",
                       !.list = SuggestionsFromReply(llm.fallback, llm.reply)]
  /\ UNCHANGED <<tasks, nextId, file, writers, acked, reflections, now>>

NextLLM ==
  \/ \E t \in LLMTasks(nextId) : StoreLLMTask(t)
  \/ \E apiKey \in ApiKeys, userName \in UserNames : RequestBriefing(apiKey, userName)
  \/ \E apiKey \in ApiKeys, d \in LLMDecisions : RequestSuggestions(apiKey, d)
  \/ \E reply \in IF llm.pc = "awaiting" /\ llm.kind = "suggestions"
                  THEN SuggestionReplies ELSE BriefingReplies : Settle(reply)
  \/ Continue

SpecLLM == Init /\ [][NextLLM]_vars

\* The scheduler runs a continuation whose promise has settled; nothing
\* obliges the service to answer.
SpecLLMFair == SpecLLM /\ WF_vars(Continue)

Returned(kind) == llm.pc = "returned" /\ llm.kind = kind

\* C15: the briefing generateBriefingLLM returns has at most 2 focus items,
\* and each item's action is a start or finish with the id of an existing
\* task as actionId, or a create_new_action without actionId.
C15_FocusActionsExist ==
  Returned("briefing") =>
    /\ Len(result.value.focus) <= 2
    /\ \A k \in 1..Len(result.value.focus) :
         LET a == result.value.focus[k].action
         IN IF a.type = "create_new_action" THEN ~Has(a, "actionId")
            ELSE /\ a.type \in {"start_existing_action", "finish_existing_action"}
                 /\ Has(a, "actionId") /\ a.actionId \in IdsOf(tasks)

\* The reply's JSON obeys the briefing schema: greeting, headline, a focus
\* array of at most 2 valid items, and a cta with label and microcopy.
BriefingSchemaOk(json) ==
  /\ IsRecord(json)
  /\ Has(json, "greeting") /\ Has(json, "headline")
  /\ IsArrayAt(json, "focus")
  /\ Len(json.focus.items) <= 2
  /\ \A k \in 1..Len(json.focus.items) : ValidFocusItem(json.focus.items[k])
  /\ Has(json, "cta") /\ Has(json.cta, "label") /\ Has(json.cta, "microcopy")

\* The items of a reply's JSON when it is an array of suggestions, bare or
\* under the key suggestions.
SuggestionItems(json) ==
  IF IsRecord(json)
  THEN IF IsArrayAt(json, "suggestions") THEN json.suggestions.items ELSE <<>>
  ELSE IF json.json = "array" THEN json.items ELSE <<>>

\* The reply's JSON obeys the suggestion schema: an array of at most 4
\* items, each with a title, a rationale and one of the known kinds.
SuggestionSchemaOk(json) ==
  /\ IsRecord(json) => IsArrayAt(json, "suggestions")
  /\ ~IsRecord(json) => json.json = "array"
  /\ Len(SuggestionItems(json)) <= 4
  /\ \A k \in 1..Len(SuggestionItems(json)) :
       LET item == SuggestionItems(json)[k]
       IN UsableSuggestion(item) /\ Has(item, "kind") /\ item.kind \in validKinds

\* The cases in which the request must answer with the deterministic value.
MustFallBack ==
  \/ llm.key = ""
  \/ llm.reply.kind \in {"rejected", "no_text", "malformed"}
  \/ /\ llm.reply.kind = "json" /\ llm.kind = "briefing"
     /\ \/ ~BriefingSchemaOk(llm.reply.json)
        \/ Len(llm.reply.json.focus.items) = 0
  \/ /\ llm.reply.kind = "json" /\ llm.kind = "suggestions"
     /\ \/ ~SuggestionSchemaOk(llm.reply.json)
        \/ Len(SuggestionItems(llm.reply.json)) = 0

\* C17: a request that had no key, whose call threw, or whose reply had no
\* text block, was not JSON, broke the schema or held no usable item, does
\* not throw and returns exactly the deterministic engine's value for the
\* same inputs.
C17_FallbackIsDeterministic ==
  /\ Returned("briefing") /\ MustFallBack =>
       /\ ~result.threw
       /\ result.value =
            generateBriefingDeterministic(BriefingGoals(tasks), tasks, llm.arg)
  /\ Returned("suggestions") /\ MustFallBack =>
       /\ ~result.threw
       /\ result.list = generateSuggestions(llm.arg, tasks)

\* C18: a request that waits for the service returns in the end, whether
\* the service answers or not.
C18_RequestsReturn == (llm.pc = "awaiting") ~> (llm.pc = "returned")

\* --------------------------------------- reflections (reflections-store.ts)

\* A JSON number is a ratio; typeof v === "number".
IsNumber(v) == Has(v, "num")

IsInteger(v) == v.num % v.den = 0

Num(n) == Ratio(n, 1)

\* A string of spaces leading spaces followed by chars other characters.
NoteText(spaces, chars) == [spaces |-> spaces, chars |-> chars]

IsString(v) == Has(v, "chars")

Length(s) == s.spaces + s.chars

\* String.trim.
TrimNote(s) == NoteText(0, s.chars)

IsArray(v) == Has(v, "json") /\ v.json = "array"

\* input.note is truthy: a number, or a string that is not empty.
TruthyNote(input) ==
  /\ Has(input, "note")
  /\ input.note # JsonNull
  /\ IsString(input.note) => Length(input.note) > 0

VALID_SIGNALS ==
  {"clear_step", "enough_time", "context_switching", "low_energy", "unclear_action"}

MaxNoteLength == 140

hasSignals(input) ==
  Has(input, "signals") /\ IsArray(input.signals) /\ Len(input.signals.items) > 0

\* input.note && input.note.trim().length > 0, for a note that has trim.
hasNote(input) ==
  TruthyNote(input) /\ IsString(input.note) /\ Length(TrimNote(input.note)) > 0

hasAnswers(input) ==
  Has(input, "answers") /\ IsArray(input.answers) /\ Len(input.answers.items) > 0

\* The first signal that is not one of VALID_SIGNALS, "" when all are.
FirstInvalidSignal(signals) ==
  LET bad == {i \in 1..Len(signals) : signals[i] \notin VALID_SIGNALS}
  IN IF bad = {} THEN "" ELSE signals[CHOOSE i \in bad : \A j \in bad : i <= j]

\* !answer.promptId || !answer.value
BadAnswer(answer) ==
  \/ ~Has(answer, "promptId") \/ answer.promptId = ""
  \/ ~Has(answer, "value") \/ answer.value = ""

\* input.signals is truthy: not null and not the empty string.
TruthySignals(input) ==
  /\ Has(input, "signals")
  /\ input.signals # JsonNull
  /\ IsString(input.signals) => Length(input.signals) > 0

\* The message of the first return of appendReflection's validation, ""
\* when the input passes it.
ValidationMessage(input) ==
  IF ~Has(input, "goalId") \/ ~IsNumber(input.goalId) \/ input.goalId.num <= 0
  THEN "Invalid goalId"
  ELSE IF Has(input, "actionId")
          /\ (~IsNumber(input.actionId) \/ input.actionId.num <= 0)
  THEN "Invalid actionId"
  ELSE IF ~hasSignals(input) /\ ~hasNote(input) /\ ~hasAnswers(input)
  THEN "Reflection must have signals, note, or answers"
  ELSE IF TruthySignals(input) /\ ~IsArray(input.signals)
  THEN "signals must be an array"
  ELSE IF TruthySignals(input) /\ FirstInvalidSignal(input.signals.items) # ""
  THEN "Invalid signal: " \o FirstInvalidSignal(input.signals.items)
  ELSE IF Has(input, "note") /\ ~IsString(input.note)
  THEN "note must be a string"
  ELSE IF Has(input, "note") /\ Length(input.note) > MaxNoteLength
  THEN "note must be <= 140 characters"
  ELSE IF Has(input, "answers") /\ ~IsArray(input.answers)
  THEN "answers must be an array"
  ELSE IF Has(input, "answers")
          /\ \E k \in 1..Len(input.answers.items) : BadAnswer(input.answers.items[k])
  THEN "Each answer must have promptId and value"
  ELSE ""

\* input.note.trim() is called on a truthy note that has no trim, after
\* goalId and actionId passed their checks.
NoteThrows(input) ==
  /\ Has(input, "goalId") /\ IsNumber(input.goalId) /\ input.goalId.num > 0
  /\ Has(input, "actionId") => IsNumber(input.actionId) /\ input.actionId.num > 0
  /\ TruthyNote(input) /\ ~IsString(input.note)

\* The loop over the answers reads promptId of an entry that is null: the
\* first entry that is null or lacks promptId or value is null.
AnswersThrow(input) ==
  LET items == input.answers.items
      bad == {k \in 1..Len(items) : BadAnswer(items[k])}
  IN /\ ValidationMessage(input) = "Each answer must have promptId and value"
     /\ items[CHOOSE k \in bad : \A j \in bad : k <= j] = JsonNull

\* input.signals?.filter is called on the empty string, which passed the
\* validation as falsy and has no filter.
SignalsThrow(input) ==
  /\ ValidationMessage(input) = ""
  /\ Has(input, "signals") /\ IsString(input.signals)

\* appendReflection throws a TypeError instead of returning.
appendReflectionThrows(input) ==
  NoteThrows(input) \/ (~NoteThrows(input) /\ (AnswersThrow(input) \/ SignalsThrow(input)))

\* The reflection appendReflection creates: id stands for randomUUID(), t
\* for new Date(); a key whose value is undefined is not written.
NewReflection(input, id, t) ==
  LET base == [id |-> id, createdAt |-> t, goalId |-> input.goalId]
      withAction == IF Has(input, "actionId") THEN Put(base, "actionId", input.actionId)
                    ELSE base
      withSignals == IF Has(input, "signals") /\ IsArray(input.signals)
                     THEN Put(withAction, "signals",
                              JsonArray(SelectSeq(input.signals.items, LAMBDA s : s # "")))
                     ELSE withAction
      withNote == IF Has(input, "note") /\ Length(TrimNote(input.note)) > 0
                  THEN Put(withSignals, "note", TrimNote(input.note))
                  ELSE withSignals
  IN IF Has(input, "answers") THEN Put(withNote, "answers", input.answers) ELSE withNote

\* Variant of loadReflections that reads every file as the empty array.
M_loadReflectionsEmpty(f) == <<>>

\* loadReflections: the array of the file, [] when there is no file.
loadReflections(f) == f.data

DefaultSinceDays == 14

\* Variant of InWindow that leaves out a reflection created at the cutoff.
M_InWindowAfterCutoff(r, sinceDays, t) == r.createdAt > t - sinceDays

\* createdDate >= cutoffDate, the cutoff sinceDays days before t.
InWindow(r, sinceDays, t) == r.createdAt >= t - sinceDays

\* listReflections(params) at time t on the stored array.
listReflections(data, params, t) ==
  LET sinceDays == IF Has(params, "sinceDays") THEN params.sinceDays ELSE DefaultSinceDays
      keep(r) ==
        /\ InWindow(r, sinceDays, t)
        /\ Has(params, "goalId") => r.goalId = params.goalId
        /\ Has(params, "actionId") => Has(r, "actionId") /\ r.actionId = params.actionId
  IN SelectSeq(data, keep)

MaxReflections == 2

MaxDays == 21

DaysPerTick == 7

\* appendReflection(input), called as op on behalf of a request with that
\* body: a validation error, a TypeError, or the new reflection pushed onto
\* the loaded array and the whole array saved.
ReflectionCall(op, body, input) ==
  LET message == ValidationMessage(input)
      reflection == NewReflection(input, Len(reflections.data) + 1, now)
  IN IF appendReflectionThrows(input)
     THEN /\ result' = [NoResult EXCEPT !.op = op, !.patch = body,
                                        !.ok = FALSE, !.threw = TRUE]
          /\ UNCHANGED <<tasks, nextId, file, writers, acked, llm, reflections, now>>
     ELSE IF message # ""
     THEN /\ result' = [NoResult EXCEPT !.op = op, !.patch = body,
                                        !.ok = FALSE, !.code = message]
          /\ UNCHANGED <<tasks, nextId, file, writers, acked, llm, reflections, now>>
     ELSE /\ Len(reflections.data) < MaxReflections
          /\ reflections' = [kind |-> "array",
                             data |-> Append(loadReflections(reflections), reflection)]
          /\ acked' = Append(acked, reflection)
          /\ result' = [NoResult EXCEPT !.op = op, !.patch = body,
                                        !.value = reflection]
          /\ UNCHANGED <<tasks, nextId, file, writers, llm, now>>

\* appendReflection(input), called directly.
AppendReflection(input) == ReflectionCall("appendReflection", input, input)

\* POST /reflections: appendReflection on the goalId, actionId, signals and
\* note of the body; the result is the response.
PostReflections(body) ==
  ReflectionCall("postReflections", body,
                 Pick(body, {"goalId", "actionId", "signals", "note"}))

\* listReflections(params): loadReflections writes [] when there is no file.
ListReflections(params) ==
  /\ result' = [NoResult EXCEPT !.op = "listReflections", !.patch = params,
                                !.list = listReflections(loadReflections(reflections),
                                                         params, now)]
  /\ reflections' = [kind |-> "array", data |-> loadReflections(reflections)]
  /\ UNCHANGED <<tasks, nextId, file, writers, acked, llm, now>>

\* Time passes.
Tick ==
  /\ now + DaysPerTick <= MaxDays
  /\ now' = now + DaysPerTick
  /\ UNCHANGED <<tasks, nextId, result, file, writers, acked, llm, reflections>>

\* ------------------------------------------ reflections stored and listed

\* Inputs of appendReflection: three that pass the validation, and inputs
\* with a goalId and nothing to say.
ReflectInputs ==
  {[goalId |-> Num(1), signals |-> JsonArray(<<"clear_step">>)],
   [goalId |-> Num(2), signals |-> JsonArray(<<"low_energy">>), note |-> NoteText(0, 1)],
   [goalId |-> Num(1), actionId |-> Num(1),
    signals |-> JsonArray(<<"clear_step", "enough_time">>)],
   [goalId |-> Num(1)],
   [goalId |-> Num(1), signals |-> JsonArray(<<>>)],
   [goalId |-> Num(1), note |-> NoteText(0, 0)],
   [goalId |-> Num(1), note |-> NoteText(1, 0), answers |-> JsonArray(<<>>)],
   [goalId |-> Num(1), actionId |-> Num(0)]}

\* Parameters of listReflections.
ListParams ==
  {NoObj, [goalId |-> Num(1)], [goalId |-> Num(2)],
   [goalId |-> Num(1), sinceDays |-> DaysPerTick],
   [goalId |-> Num(1), actionId |-> Num(1)]}

NextReflect ==
  \/ \E input \in ReflectInputs : AppendReflection(input)
  \/ \E params \in ListParams : ListReflections(params)
  \/ Tick

SpecReflect == Init /\ [][NextReflect]_vars

PositiveInteger(v) == IsNumber(v) /\ IsInteger(v) /\ v.num > 0

ValidGoalId(input) == Has(input, "goalId") /\ PositiveInteger(input.goalId)

\* The input has no signal, no note but whitespace, and no answer.
NoContent(input) ==
  /\ Has(input, "signals") => IsArray(input.signals) /\ input.signals.items = <<>>
  /\ Has(input, "note") => IsString(input.note) /\ input.note.chars = 0
  /\ Has(input, "answers") => IsArray(input.answers) /\ input.answers.items = <<>>

\* The input has a non-empty list of valid signals, and whatever else it
\* has is valid.
ValidSignals(input) ==
  /\ Has(input, "signals") /\ IsArray(input.signals) /\ input.signals.items # <<>>
  /\ \A k \in 1..Len(input.signals.items) : input.signals.items[k] \in VALID_SIGNALS
  /\ Has(input, "actionId") => PositiveInteger(input.actionId)
  /\ Has(input, "note") => IsString(input.note) /\ Length(input.note) <= MaxNoteLength
  /\ Has(input, "answers") =>
       /\ IsArray(input.answers)
       /\ \A k \in 1..Len(input.answers.items) : ~BadAnswer(input.answers.items[k])

\* The recency window of a listReflections call.
WindowOf(params) ==
  IF Has(params, "sinceDays") THEN params.sinceDays ELSE DefaultSinceDays

\* C19: appendReflection with a valid goalId and no signal, note or answer
\* fails with a validation error and leaves the store as it was; with a
\* valid goalId g and a non-empty list of valid signals it succeeds and
\* stores the reflection, and every later listReflections({goalId: g})
\* returns every such reflection that is still inside its recency window.
C19_AppendThenList ==
  [][/\ (/\ result'.op = "appendReflection"
         /\ ValidGoalId(result'.patch) /\ NoContent(result'.patch))
        => /\ ~result'.ok /\ ~result'.threw /\ result'.code # ""
           /\ reflections' = reflections
     /\ (/\ result'.op = "appendReflection" /\ result' # result
         /\ ValidGoalId(result'.patch) /\ ValidSignals(result'.patch))
        => /\ result'.ok /\ ~result'.threw
           /\ result'.value.goalId = result'.patch.goalId
           /\ result'.value.signals = result'.patch.signals
           /\ reflections'.data = Append(reflections.data, result'.value)
           /\ acked' = Append(acked, result'.value)
     /\ (/\ result'.op = "listReflections" /\ result' # result
         /\ DOMAIN result'.patch \subseteq {"goalId", "sinceDays"}
         /\ Has(result'.patch, "goalId"))
        => \A k \in 1..Len(acked') :
             (/\ acked'[k].goalId = result'.patch.goalId
              /\ now' - acked'[k].createdAt <= WindowOf(result'.patch))
               => \E j \in 1..Len(result'.list) : result'.list[j] = acked'[k]
    ]_vars

\* Two reflections on goal 1 were stored, 21 and 14 days ago; the list for
\* goal 1 holds the one stored 14 days ago, at the edge of the window.
C19_Witness ==
  /\ result.op = "listReflections"
  /\ result.patch = [goalId |-> Num(1)]
  /\ Len(acked) = 2
  /\ acked[1].goalId = Num(1) /\ acked[1].createdAt = now - 21
  /\ acked[2].goalId = Num(1) /\ acked[2].createdAt = now - DefaultSinceDays
  /\ result.list = <<acked[2]>>

\* ---------------------------------------------- the validation, input by input

\* An input made of the fields that are given; Undefined leaves a key out.
ReflectionInput(goalId, actionId, signals, note, answers) ==
  LET given == [goalId |-> goalId, actionId |-> actionId, signals |-> signals,
                note |-> note, answers |-> answers]
  IN [k \in {x \in DOMAIN given : given[x] # [json |-> Undefined]} |-> given[k]]

Absent == [json |-> Undefined]

ValidateInputs ==
  {ReflectionInput(goalId, actionId, signals, note, answers) :
     goalId \in {Absent, Num(1), Num(0), Ratio(3, 2), JsonString},
     actionId \in {Absent, Num(2), Num(0), Ratio(3, 2)},
     signals \in {Absent, JsonArray(<<>>), JsonArray(<<"clear_step">>),
                  JsonArray(<<"clear_step", "urgent">>), JsonString},
     note \in {Absent, NoteText(0, MaxNoteLength), NoteText(1, MaxNoteLength),
               NoteText(0, MaxNoteLength + 1), NoteText(MaxNoteLength + 1, 0),
               JsonNumber, JsonNull},
     answers \in {Absent, JsonArray(<<[promptId |-> "p", value |-> "v"]>>),
                  JsonArray(<<[promptId |-> "p", value |-> ""]>>)}}

\* appendReflection on a fresh store.  The validation reads nothing but the
\* input, so a call that follows another call's answer validates as this one.
NextValidate ==
  \E input \in ValidateInputs : result.op = "new" /\ AppendReflection(input)

SpecValidate == Init /\ [][NextValidate]_vars

\* The optional fields that are given have the type of the field.
WellTyped(input) ==
  /\ Has(input, "signals") => IsArray(input.signals)
  /\ Has(input, "note") => IsString(input.note)
  /\ Has(input, "answers") => IsArray(input.answers)

\* The number of the first rule the input breaks, 0 when it breaks none.
FirstBrokenRule(input) ==
  IF ~ValidGoalId(input) THEN 1
  ELSE IF Has(input, "actionId") /\ ~PositiveInteger(input.actionId) THEN 2
  ELSE IF NoContent(input) THEN 3
  ELSE IF Has(input, "signals")
          /\ \E k \in 1..Len(input.signals.items) : input.signals.items[k] \notin VALID_SIGNALS
  THEN 4
  ELSE IF Has(input, "note") /\ Length(input.note) > MaxNoteLength THEN 5
  ELSE IF Has(input, "answers")
          /\ \E k \in 1..Len(input.answers.items) : BadAnswer(input.answers.items[k])
  THEN 6
  ELSE 0

\* The error message tells that rule was broken.
Reports(message, rule, input) ==
  CASE rule = 1 -> message = "Invalid goalId"
    [] rule = 2 -> message = "Invalid actionId"
    [] rule = 3 -> message = "Reflection must have signals, note, or answers"
    [] rule = 4 -> \E k \in 1..Len(input.signals.items) :
                     /\ input.signals.items[k] \notin VALID_SIGNALS
                     /\ message = "Invalid signal: " \o input.signals.items[k]
    [] rule = 5 -> message = "note must be <= 140 characters"
    [] rule = 6 -> message = "Each answer must have promptId and value"

\* C20: appendReflection reports the first rule the input breaks, in the
\* order goalId a positive integer, actionId a positive integer if given,
\* some signal, note or answer, every signal a known one, note of at most
\* 140 characters, every answer with promptId and value; an input that
\* breaks a rule is rejected and the store stays as it was.
C20_FirstBrokenRuleReported ==
  [][(/\ result'.op = "appendReflection" /\ result' # result
      /\ WellTyped(result'.patch)
      /\ FirstBrokenRule(result'.patch) # 0)
       => /\ ~result'.ok /\ ~result'.threw
          /\ Reports(result'.code, FirstBrokenRule(result'.patch), result'.patch)
          /\ reflections' = reflections
    ]_vars

\* ------------------------------------------------- the store only grows

\* s is the beginning of t.
IsPrefixOf(s, t) == Len(s) <= Len(t) /\ SubSeq(t, 1, Len(s)) = s

\* The ids of the stored reflections.
StoredIds(data) == {data[k].id : k \in 1..Len(data)}

\* C21: every call of appendReflection and listReflections keeps the stored
\* reflections as they were, content and order; the reflections that were
\* acknowledged are the stored ones, in the order of their appends; and a
\* successful append adds exactly one record, at the end, whose id is none
\* of the ids stored before.
C21_AppendOnly ==
  [][/\ IsPrefixOf(reflections.data, reflections'.data)
     /\ acked' = reflections'.data
     /\ (result'.op = "appendReflection" /\ result' # result /\ result'.ok)
        => /\ reflections'.data = Append(reflections.data, result'.value)
           /\ result'.value.id \notin StoredIds(reflections.data)
     /\ (result'.op = "appendReflection" /\ ~result'.ok)
        => reflections'.data = reflections.data
     /\ result'.op = "listReflections" => reflections'.data = reflections.data
    ]_vars

\* A second reflection was appended behind the first one, a week or more
\* later; both are stored, under two ids.
C21_Witness ==
  /\ result.op = "appendReflection" /\ result.ok
  /\ Len(reflections.data) = 2
  /\ reflections.data[2] = result.value
  /\ reflections.data[1].createdAt < reflections.data[2].createdAt
  /\ reflections.data[1].id # reflections.data[2].id

\* ------------------------------------------------ malformed reflection inputs

\* The malformed inputs the validation names: goalId and actionId that are
\* no positive numbers, signals, note and answers that are empty, of
\* another type or null, an unknown signal, a note that is too long, and
\* answers with an entry that lacks a value or is null.
MalformedInputs ==
  {ReflectionInput(goalId, actionId, signals, note, answers) :
     goalId \in {Absent, Num(1), Num(0), JsonString},
     actionId \in {Absent, Num(2), Num(0)},
     signals \in {Absent, JsonArray(<<>>), JsonArray(<<"clear_step">>),
                  JsonArray(<<"urgent">>), JsonNull, NoteText(0, 0), JsonString},
     note \in {Absent, NoteText(0, 1), NoteText(2, 0), NoteText(0, MaxNoteLength + 1),
               JsonNumber, JsonNull},
     answers \in {Absent, JsonArray(<<>>),
                  JsonArray(<<[promptId |-> "p", value |-> "v"]>>),
                  JsonArray(<<[promptId |-> "p", value |-> ""]>>),
                  JsonArray(<<JsonNull>>),
                  JsonArray(<<[promptId |-> "p", value |-> "v"], JsonNull>>),
                  JsonArray(<<[promptId |-> "p", value |-> ""], JsonNull>>),
                  JsonNull}}

\* appendReflection of a malformed or well-formed input on a fresh store.
NextMalformed ==
  \E input \in MalformedInputs : result.op = "new" /\ AppendReflection(input)

SpecMalformed == Init /\ [][NextMalformed]_vars

\* C22: appendReflection returns a result for every input and never
\* throws: either ok with the reflection, or not ok with an error message.
C22_AppendNeverThrows ==
  result.op = "appendReflection" =>
    /\ ~result.threw
    /\ result.ok \/ result.code # ""

\* Same, for the inputs without a null answer entry, without a note that is
\* no string and without signals that are the empty string.
C22_TypedInputsNeverThrow ==
  (/\ result.op = "appendReflection"
   /\ Has(result.patch, "note") => IsString(result.patch.note) \/ result.patch.note = JsonNull
   /\ Has(result.patch, "signals") => ~IsString(result.patch.signals)
   /\ Has(result.patch, "answers") /\ IsArray(result.patch.answers) =>
        \A k \in 1..Len(result.patch.answers.items) :
          result.patch.answers.items[k] # JsonNull)
    => /\ ~result.threw
       /\ result.ok \/ result.code # ""

C22_NoteThrew ==
  result.threw /\ Has(result.patch, "note") /\ result.patch.note = JsonNumber

C22_NullAnswerThrew ==
  /\ result.threw /\ ~Has(result.patch, "note")
  /\ Has(result.patch, "answers") /\ result.patch.answers = JsonArray(<<JsonNull>>)

C22_EmptySignalsThrew ==
  /\ result.threw /\ Has(result.patch, "signals") /\ result.patch.signals = NoteText(0, 0)
  /\ Has(result.patch, "note") /\ IsString(result.patch.note)

\* ----------------------------------------- the suggestions of POST /suggestions

\* C23: the suggestions a POST /suggestions request returns, from the
\* service's reply or from the deterministic engine, are at most 4 and
\* hold exactly one item of kind validation.
C23_SuggestionMix ==
  Returned("suggestions") =>
    /\ Len(result.list) <= 4
    /\ KindCount(result.list, "validation") = 1

\* At most 4 suggestions are returned on both paths.
C23_AtMostFour == Returned("suggestions") => Len(result.list) <= 4

\* The deterministic path returns exactly one validation item.
C23_FallbackHasOneValidation ==
  Returned("suggestions") /\ result.list = llm.fallback =>
    KindCount(result.list, "validation") = 1

\* The service's reply was returned with two validation items.
C23_TwoValidationsReturned ==
  /\ Returned("suggestions") /\ llm.key # ""
  /\ KindCount(result.list, "validation") = 2

\* ------------------------------------------------------- POST /reflections

\* Request bodies of POST /reflections: with signals, a note, answers, or
\* nothing to say.
PostBodies ==
  {ReflectionInput(goalId, actionId, signals, note, answers) :
     goalId \in {Num(1), Num(999), Num(0)},
     actionId \in {Absent, Num(2)},
     signals \in {Absent, JsonArray(<<>>), JsonArray(<<"clear_step", "enough_time">>)},
     note \in {Absent, NoteText(0, 1)},
     answers \in {Absent, JsonArray(<<>>),
                  JsonArray(<<[promptId |-> "p", value |-> "v"]>>),
                  JsonArray(<<[promptId |-> "p", value |-> "v"],
                              [promptId |-> "q", value |-> "w"]>>),
                  JsonArray(<<[promptId |-> "p", value |-> ""]>>)}}

\* One request on a fresh store.
NextPost == \E body \in PostBodies : result.op = "new" /\ PostReflections(body)

SpecPost == Init /\ [][NextPost]_vars

\* The body has a non-empty array of answers, each with promptId and value.
ValidAnswers(body) ==
  /\ Has(body, "answers") /\ IsArray(body.answers) /\ body.answers.items # <<>>
  /\ \A k \in 1..Len(body.answers.items) : ~BadAnswer(body.answers.items[k])

\* C24: a POST /reflections request with a valid goalId, a non-empty array
\* of {promptId, value} answers and neither signals nor note is answered
\* with ok: true, and its reflection is stored with the answers.
C24_AnswersOnlyAccepted ==
  [][(/\ result'.op = "postReflections" /\ result' # result
      /\ ValidGoalId(result'.patch) /\ ValidAnswers(result'.patch)
      /\ ~Has(result'.patch, "signals") /\ ~Has(result'.patch, "note")
      /\ Has(result'.patch, "actionId") => PositiveInteger(result'.patch.actionId))
       => /\ result'.ok /\ ~result'.threw
          /\ result'.value.answers = result'.patch.answers
          /\ reflections'.data = Append(reflections.data, result'.value)
    ]_vars

\* The same body given to appendReflection itself is accepted and stored.
C24_DirectAnswersOnlyAccepted ==
  [][(/\ result'.op = "appendReflection" /\ result' # result
      /\ ValidGoalId(result'.patch) /\ ValidAnswers(result'.patch)
      /\ ~Has(result'.patch, "signals") /\ ~Has(result'.patch, "note")
      /\ Has(result'.patch, "actionId") => PositiveInteger(result'.patch.actionId))
       => /\ result'.ok /\ ~result'.threw
          /\ result'.value.answers = result'.patch.answers
          /\ reflections'.data = Append(reflections.data, result'.value)
    ]_vars

\* A request with signals is accepted, and answers sent along are not stored.
C24_SignalsAcceptedAnswersDropped ==
  /\ result.op = "postReflections" /\ result.ok
  /\ ValidAnswers(result.patch) /\ ~Has(result.value, "answers")
  /\ reflections.data = <<result.value>>

\* An accepted direct call with answers only.
C24_DirectWitness ==
  /\ result.op = "appendReflection" /\ result.ok
  /\ DOMAIN result.patch = {"goalId", "answers"}
  /\ reflections.data = <<result.value>>

\* ---------------------------------------------------------- POST /briefing

\* ref.signals.join is called on a stored reflection that has no signals.
MapReflectionsThrows(stored) == \E k \in 1..Len(stored) : ~Has(stored[k], "signals")

\* POST /briefing up to its first await: the tasks are loaded, the
\* reflections of the last 14 days are listed and mapped to the input of
\* generateBriefingLLM, which returns the deterministic briefing at once
\* when there is no key and makes the call when there is one.  A TypeError
\* of the mapping rejects the handler's promise and no envelope is sent.
PostBriefing(apiKey, userName) ==
  /\ llm.pc \in {"idle", "returned"}
  /\ LET stored == listReflections(loadReflections(reflections),
                                   [sinceDays |-> DefaultSinceDays], now)
         fallback == generateBriefingDeterministic(BriefingGoals(tasks), tasks, userName)
     IN IF MapReflectionsThrows(stored)
        THEN /\ llm' = NoCall
             /\ result' = [NoResult EXCEPT !.op = "postBriefing", !.list = stored,
                                           !.ok = FALSE, !.threw = TRUE]
        ELSE IF apiKey = ""
        THEN /\ llm' = Call("returned", "briefing", userName, apiKey, fallback, NoReply)
             /\ result' = [NoResult EXCEPT !.op = "postBriefing", !.list = stored,
                                           !.value = fallback]
        ELSE /\ llm' = Call("awaiting", "briefing", userName, apiKey, fallback, NoReply)
             /\ result' = [NoResult EXCEPT !.list = stored]
  /\ reflections' = [kind |-> "array", data |-> loadReflections(reflections)]
  /\ UNCHANGED <<tasks, nextId, file, writers, acked, now>>

\* Reflections appended before a briefing: with signals, with a note only,
\* with answers only, and one that is rejected.
BriefingReflections ==
  {[goalId |-> Num(1), signals |-> JsonArray(<<"clear_step">>)],
   [goalId |-> Num(1), note |-> NoteText(0, 1)],
   [goalId |-> Num(1), answers |-> JsonArray(<<[promptId |-> "p", value |-> "v"]>>)],
   [goalId |-> Num(1)]}

\* What the call of a briefing settles with here.
PostBriefingReplies ==
  {Rejected, JsonText(BriefingJson(JsonArray(<<>>), FullCta))}

NextPostBriefing ==
  \/ \E t \in LLMTasks(nextId) : Len(tasks) = 0 /\ StoreLLMTask(t)
  \/ \E input \in BriefingReflections : llm.pc # "awaiting" /\ AppendReflection(input)
  \/ Tick
  \/ \E apiKey \in ApiKeys, userName \in UserNames : PostBriefing(apiKey, userName)
  \/ \E reply \in PostBriefingReplies : Settle(reply)
  \/ Continue

SpecPostBriefing == Init /\ [][NextPostBriefing]_vars

\* C25: whatever reflections were appended, a POST /briefing request does
\* not throw and is answered with the {ok: true, value: briefing} envelope.
C25_BriefingAnswered ==
  result.op \in {"postBriefing", "generateBriefingLLM"} =>
    /\ ~result.threw
    /\ result.ok /\ Has(result.value, "focus")

\* Same, when every reflection the request listed has signals.
C25_AnsweredWhenAllHaveSignals ==
  (/\ result.op \in {"postBriefing", "generateBriefingLLM"}
   /\ \A k \in 1..Len(result.list) : Has(result.list[k], "signals"))
    => /\ ~result.threw
       /\ result.ok /\ Has(result.value, "focus")

\* A briefing was answered although a reflection without signals is stored:
\* it is older than 14 days.
C25_OldNoteOnlyIgnored ==
  /\ result.op = "postBriefing" /\ result.ok
  /\ \E k \in 1..Len(reflections.data) : ~Has(reflections.data[k], "signals")

\* A briefing threw on a stored reflection that has answers only.
C25_AnswersOnlyThrew ==
  /\ result.op = "postBriefing" /\ result.threw
  /\ \E k \in 1..Len(result.list) : DOMAIN result.list[k] = {"id", "createdAt", "goalId", "answers"}

\* ------------------------------------------------ the final selection, checked

\* The candidates of the answered request.
RequestCandidates == Candidates(result.value, tasks)

\* The candidates that are no validation, without those whose title, in
\* lower case, an earlier one of them has.
DistinctNonValidation(cands) ==
  LET nv == SelectSeq(cands, LAMBDA c : c.kind # "validation")
  IN SubSeqAt(nv, 1, {i \in 1..Len(nv) :
                        \A j \in 1..(i - 1) : TitleKey(nv[j].title) # TitleKey(nv[i].title)})

\* The position of the validation item in the list.
ValidationAt(list) == CHOOSE k \in 1..Len(list) : list[k].kind = "validation"

\* C26: in the list generateSuggestions returns no two titles are equal
\* ignoring case; the items before the validation item are the first two
\* (or fewer, if there are fewer) distinct candidates that are no
\* validation, in candidate order; the validation item follows them; and
\* at most one item follows it, of kind follow-up or reuse.
C26_SelectionOrder ==
  Suggested =>
    LET list == result.list
        v == ValidationAt(list)
    IN /\ \A i, j \in 1..Len(list) :
            i # j => TitleKey(list[i].title) # TitleKey(list[j].title)
       /\ v - 1 <= 2
       /\ SubSeq(list, 1, v - 1) = FirstTwo(DistinctNonValidation(RequestCandidates))
       /\ list[v].kind = "validation"
       /\ Len(list) <= v + 1
       /\ Len(list) = v + 1 => list[v + 1].kind \in {"follow-up", "reuse"}

\* Two of four candidates that are no validation precede the validation
\* item, and the follow-up among the candidates is the 4th item.
C26_Witness ==
  /\ Suggested
  /\ Len(DistinctNonValidation(RequestCandidates)) >= 4
  /\ Len(result.list) = 4
  /\ result.list[3].kind = "validation"
  /\ result.list[4].kind = "follow-up"

\* A single item precedes the validation item: the action-prefix filter
\* left no other candidate.
C26_WitnessShort ==
  /\ Suggested
  /\ Len(result.list) >= 2
  /\ ValidationAt(result.list) = 2

\* ------------------------------------------------ the ranking of the templates

\* The clarity fields the decision has not set.
MissingFields(d) == {k \in ClarityFields : ~Truthy(d, k)}

\* The missing field of the highest priority: outcome, then metric, then horizon.
HighestMissing(d) ==
  IF ~Truthy(d, "outcome") THEN "outcome"
  ELSE IF ~Truthy(d, "metric") THEN "metric" ELSE "horizon"

\* The suggestion fills the field: it is built from a template tagged with
\* the field, or from a heuristic that proposes a value for it.
FillsField(d, s, field) ==
  LET from == ReturnedTemplates(d, <<s>>)
  IN IF from = {} THEN field \in s.proposes
     ELSE \E t \in from : Has(t, "fills") /\ t.fills = field

\* C27: for a decision that misses a clarity field, the first suggestion
\* returned fills the missing field of the highest priority (outcome, then
\* metric, then horizon); and no returned suggestion is built from a
\* template that fills a field the decision has set.
C27_HighestMissingFieldFirst ==
  Suggested =>
    /\ MissingFields(result.value) # {} =>
         FillsField(result.value, result.list[1], HighestMissing(result.value))
    /\ \A t \in ReturnedTemplates(result.value, result.list) :
         Has(t, "fills") => t.fills \in MissingFields(result.value)

\* The decision's title is action-prefixed and breaks into steps.
FilterApplies(d) ==
  isActionPrefixed(d.title) /\ BreakIntoSteps(Title("", Text(FALSE, normalize(d.title))))

\* The first suggestion fills the outcome of every decision that misses its
\* outcome, unless the filter of the action prefix removed the templates.
C27_OutcomeFirstWhenMissing ==
  (Suggested /\ ~Truthy(result.value, "outcome") /\ ~FilterApplies(result.value)) =>
    \E t \in ReturnedTemplates(result.value, SubSeq(result.list, 1, 1)) :
      Has(t, "fills") /\ t.fills = "outcome"

\* The first suggestion fills the outcome of a decision whose outcome is
\* set and whose metric is missing.
C27_SetOutcomeFilledFirst ==
  /\ Suggested
  /\ Truthy(result.value, "outcome") /\ ~Truthy(result.value, "metric")
  /\ \E t \in ReturnedTemplates(result.value, SubSeq(result.list, 1, 1)) :
       Has(t, "fills") /\ t.fills = "outcome"

\* ------------------------------------------- where the returned items come from

\* The suggestion has the title of a template of the decision's category.
FromTemplateBank(d, s) == ReturnedTemplates(d, <<s>>) # {}

\* The suggestion is the similarity-reuse candidate of the request.
IsReuse(d, all, s) == \E k \in 1..Len(ReuseCandidates(d, all)) : ReuseCandidates(d, all)[k] = s

\* C30: the items that precede the validation item are suggestions of the
\* template bank of the decision's category; no suggestion of the
\* ambiguous-verb, action-prefix, unblock or tracker-state heuristics is
\* returned; and a similarity-reuse suggestion is returned only as the last
\* item, after the validation item.
C30_OnlyTemplatesBeforeValidation ==
  Suggested =>
    LET list == result.list
        v == ValidationAt(list)
    IN \A k \in 1..Len(list) :
         /\ k < v => FromTemplateBank(result.value, list[k])
         /\ k > v => k = Len(list) /\ IsReuse(result.value, tasks, list[k])

\* Same, and two template suggestions precede the validation item, for the
\* decisions whose templates the filter of the action prefix leaves alone.
C30_HoldsWithoutFilter ==
  (Suggested /\ ~FilterApplies(result.value)) =>
    LET list == result.list
        v == ValidationAt(list)
    IN /\ v = 3
       /\ \A k \in 1..Len(list) :
            /\ k < v => FromTemplateBank(result.value, list[k])
            /\ k > v => k = Len(list) /\ IsReuse(result.value, tasks, list[k])

\* A tracker-state suggestion was returned.
C30_TrackerStateReturned ==
  /\ Suggested
  /\ \E k \in 1..Len(result.list) :
       result.list[k].title = Title("Pause one in-progress decision to focus", NoText)

\* ------------------------------------------------- started children and parents

\* The positions of the tasks whose parentId is the id of an earlier task.
ChildrenOfEarlier(ts) ==
  {i \in 1..Len(ts) : Has(ts[i], "parentId") /\ ts[i].parentId # 0
                        /\ ts[i].parentId < ts[i].id /\ Exists(ts, ts[i].parentId)}

\* C28 as claimed: a task that is in-progress or done and whose parentId
\* names a task created before it has a parent that is not todo.
C28_StartedChildHasStartedParent ==
  \A i \in ChildrenOfEarlier(tasks) :
    tasks[i].status \in {"in-progress", "done"}
      => StatusOf(tasks, tasks[i].parentId) # "todo"

\* C28 amended: the same for a task that has no child of its own, whose
\* status therefore only its own start and completion have changed.
C28_StartedLeafHasStartedParent ==
  \A i \in ChildrenOfEarlier(tasks) :
    (tasks[i].status \in {"in-progress", "done"} /\ Siblings(tasks, tasks[i].id) = {})
      => StatusOf(tasks, tasks[i].parentId) # "todo"

\* A task without children is done under a done parent that is older, next
\* to a sibling that was completed before it.
C28_Witness ==
  /\ result.op = "completeTask" /\ result.ok
  /\ MapIndex(tasks, result.id) \in ChildrenOfEarlier(tasks)
  /\ Siblings(tasks, result.id) = {}
  /\ Cardinality(Siblings(tasks, ParentOf(tasks, result.id))) = 2
  /\ StatusOf(tasks, ParentOf(tasks, result.id)) = "done"

\* ------------------------------------------------ what a transition leaves alone

\* The positions whose status differs between ts and us.
StatusChanged(ts, us) == {i \in 1..Len(ts) : us[i].status # ts[i].status}

\* The id of the task and, if it has one, its parentId.
TargetAndParent(ts, id) ==
  {id} \cup (IF Has(TaskOf(ts, id), "parentId") THEN {ParentOf(ts, id)} ELSE {})

\* C29: a successful startTask(id) or completeTask(id) changes the status
\* of the target and of its direct parent at most; every other task keeps
\* its status, every task keeps its other fields, no task is added and the
\* id counter stays; a parent that is done, or in-progress with a sibling
\* that is not done, stays as it is; and the parent of a parent that the
\* cascade changed keeps its status.
C29_TransitionFrame ==
  [][\A id \in IdsOf(tasks) :
        (Did("startTask", id) \/ Did("completeTask", id)) =>
          /\ Len(tasks') = Len(tasks) /\ nextId' = nextId
          /\ \A i \in 1..Len(tasks) :
               [tasks'[i] EXCEPT !.status = tasks[i].status] = tasks[i]
          /\ \A i \in StatusChanged(tasks, tasks') : tasks[i].id \in TargetAndParent(tasks, id)
          /\ Cardinality(StatusChanged(tasks, tasks')) <= 2
          /\ StatusOf(tasks', id) # StatusOf(tasks, id)
          /\ (HasParent(tasks, id) /\ ParentOf(tasks, id) # id) =>
               LET pid == ParentOf(tasks, id)
               IN /\ StatusOf(tasks, pid) = "done" => StatusOf(tasks', pid) = "done"
                  /\ (StatusOf(tasks, pid) = "in-progress"
                        /\ OpenSiblings(tasks, pid, id) # {})
                       => StatusOf(tasks', pid) = "in-progress"
                  /\ (HasParent(tasks, pid) /\ ParentOf(tasks, pid) \notin {id, pid})
                       => StatusOf(tasks', ParentOf(tasks, pid))
                            = StatusOf(tasks, ParentOf(tasks, pid))]_vars

\* Task 3 under task 2 under task 1 has just been started: task 2 was
\* promoted with it and task 1 is still todo.
C29_Witness ==
  /\ result.op = "startTask" /\ result.ok /\ result.id = 3
  /\ HasParent(tasks, 3) /\ ParentOf(tasks, 3) = 2
  /\ HasParent(tasks, 2) /\ ParentOf(tasks, 2) = 1
  /\ StatusOf(tasks, 3) = "in-progress"
  /\ StatusOf(tasks, 2) = "in-progress"
  /\ StatusOf(tasks, 1) = "todo"

====
